---------------------------- MODULE Spec2Model ----------------------------
(***************************************************************************)
(* Model of the triage pipeline of the customer-service assistant:         *)
(* processUserRequest (intent classification, keyword risk scoring, SLA    *)
(* estimation, team routing, response generation, response validation)     *)
(* with its progress events and its three external model calls.            *)
(*                                                                         *)
(* Text is a TLA+ string.  Where the code lowercases a text or searches it *)
(* with String.includes, the text is looked up in `characters', which      *)
(* spells it as a sequence of one-character strings, so that case folding  *)
(* and substring search are computed as the code computes them.            *)
(***************************************************************************)
EXTENDS Integers, Sequences, FiniteSets, TLC

(***************************************************************************)
(* State.  `runs' holds the runs of processUserRequest (described where    *)
(* the runs are defined).  `typed' and `applied' belong to the harness of  *)
(* the pure helpers: the phrases of the text under construction and the    *)
(* latest application of a helper, with its inputs and its output.  `app'  *)
(* is the state of the React application: the state of App (currentDomain, *)
(* histories), the state of ChatInterface (isProcessing, currentSteps) and *)
(* the activations of handleSubmit.                                        *)
(***************************************************************************)
VARIABLES runs, typed, applied, app

(***************************************************************************)
(* Bounds of the model.                                                    *)
(***************************************************************************)
\* longest conversation history handed to a run
MaxHistory == 1

\* calls of handleSubmit that get past its guard
MaxSubmissions == 2

(***************************************************************************)
(* String primitives (String.prototype.toLowerCase, String.prototype.      *)
(* includes) on character sequences.                                       *)
(***************************************************************************)
UpperCaseLetters ==
    <<"A","B","C","D","E","F","G","H","I","J","K","L","M",
      "N","O","P","Q","R","S","T","U","V","W","X","Y","Z">>

LowerCaseLetters ==
    <<"a","b","c","d","e","f","g","h","i","j","k","l","m",
      "n","o","p","q","r","s","t","u","v","w","x","y","z">>

toLowerCaseChar(c) ==
    IF \E j \in 1..Len(UpperCaseLetters) : UpperCaseLetters[j] = c
    THEN LowerCaseLetters[CHOOSE j \in 1..Len(UpperCaseLetters) : UpperCaseLetters[j] = c]
    ELSE c

toLowerCase(s) ==
    [k \in 1..Len(s) |-> toLowerCaseChar(s[k])]

\* text.includes(word): word occurs in text as a contiguous substring
includes(text, word) ==
    \E k \in 0..(Len(text) - Len(word)) : SubSeq(text, k + 1, k + Len(word)) = word

(***************************************************************************)
(* The texts of the model (user messages and classification replies),      *)
(* spelled out character by character.                                     *)
(***************************************************************************)
characters ==
    ("There is a fraud on my account, emergency, unauthorized wire!" :>
        <<"T","h","e","r","e"," ","i","s"," ","a"," ","f","r","a","u","d"," ","o","n"," ","m","y",
        " ","a","c","c","o","u","n","t",","," ","e","m","e","r","g","e","n","c","y",","," ","u","n",
        "a","u","t","h","o","r","i","z","e","d"," ","w","i","r","e","!">>)
    @@ ("my order is late and driver never arrived" :>
        <<"m","y"," ","o","r","d","e","r"," ","i","s"," ","l","a","t","e"," ","a","n","d"," ","d",
        "r","i","v","e","r"," ","n","e","v","e","r"," ","a","r","r","i","v","e","d">>)
    @@ ("What are my current fees?" :>
        <<"W","h","a","t"," ","a","r","e"," ","m","y"," ","c","u","r","r","e","n","t"," ","f","e",
        "e","s","?">>)
    @@ ("URGENT: Login reset" :>
        <<"U","R","G","E","N","T",":"," ","L","o","g","i","n"," ","r","e","s","e","t">>)
    @@ ("Status of wire transfer TXN-88291?" :>
        <<"S","t","a","t","u","s"," ","o","f"," ","w","i","r","e"," ","t","r","a","n","s","f","e","r"," ","T","X","N","-","8","8","2","9","1","?">>)
    @@ ("Where is my order ZEP-9921? It's late." :>
        <<"W","h","e","r","e"," ","i","s"," ","m","y"," ","o","r","d","e","r"," ","Z","E","P","-","9","9","2","1","?"," ","I","t","'","s"," ","l","a","t","e",".">>)
    @@ ("My compliance alert regarding Singapore login?" :>
        <<"M","y"," ","c","o","m","p","l","i","a","n","c","e"," ","a","l","e","r","t"," ","r","e","g","a","r","d","i","n","g"," ","S","i","n","g","a","p","o","r","e"," ","l","o","g","i","n","?">>)
    @@ ("Rebalance my portfolio for Q3 based on recommendations." :>
        <<"R","e","b","a","l","a","n","c","e"," ","m","y"," ","p","o","r","t","f","o","l","i","o"," ","f","o","r"," ","Q","3"," ","b","a","s","e","d"," ","o","n"," ","r","e","c","o","m","m","e","n","d","a","t","i","o","n","s",".">>)
    @@ ("I received spoiled milk in my last delivery." :>
        <<"I"," ","r","e","c","e","i","v","e","d"," ","s","p","o","i","l","e","d"," ","m","i","l","k"," ","i","n"," ","m","y"," ","l","a","s","t"," ","d","e","l","i","v","e","r","y",".">>)
    @@ ("Do you have any promo codes for today?" :>
        <<"D","o"," ","y","o","u"," ","h","a","v","e"," ","a","n","y"," ","p","r","o","m","o"," ","c","o","d","e","s"," ","f","o","r"," ","t","o","d","a","y","?">>)
    @@ ("" :>
        <<>>)
    @@ ("Product Query" :>
        <<"P","r","o","d","u","c","t"," ","Q","u","e","r","y">>)
    @@ ("Feedback/Feature" :>
        <<"F","e","e","d","b","a","c","k","/","F","e","a","t","u","r","e">>)
    @@ ("Complaint" :>
        <<"C","o","m","p","l","a","i","n","t">>)
    @@ ("Unknown" :>
        <<"U","n","k","n","o","w","n">>)
    @@ ("COMPLAINT" :>
        <<"C","O","M","P","L","A","I","N","T">>)
    @@ ("feature request" :>
        <<"f","e","a","t","u","r","e"," ","r","e","q","u","e","s","t">>)
    @@ ("complaint and feedback" :>
        <<"c","o","m","p","l","a","i","n","t"," ","a","n","d"," ","f","e","e","d","b","a","c","k">>)
    @@ ("query" :>
        <<"q","u","e","r","y">>)
    @@ ("   " :>
        <<" "," "," ">>)

(***************************************************************************)
(* types.ts: the enums.                                                    *)
(***************************************************************************)
MASTER == "Master/Intent Agent"

SLA == "SLA Breach Agent"

RISK == "Risk Score Agent"

VALIDATION == "Validation Agent"

SYSTEM == "System"

AgentType == {MASTER, SLA, RISK, VALIDATION, SYSTEM}

QUERY == "Product Query"

FEEDBACK == "Feedback/Feature"

COMPLAINT == "Complaint"

UNKNOWN == "Unknown"

IntentType == {QUERY, FEEDBACK, COMPLAINT, UNKNOWN}

LOW == "Low"

MEDIUM == "Medium"

HIGH == "High"

CRITICAL == "Critical"

RiskLevel == {LOW, MEDIUM, HIGH, CRITICAL}

StepStatus == {"pending", "success", "warning", "error"}

(***************************************************************************)
(* mockData.ts: the domain registry.  Hours are kept in hundredths         *)
(* (0.25 h = 25), so that the thresholds stay integers.                    *)
(***************************************************************************)
HourScale == 100

bny_critical ==
    << <<"f","r","a","u","d">>,
       <<"u","n","a","u","t","h","o","r","i","z","e","d">>,
       <<"c","o","m","p","l","i","a","n","c","e"," ","b","r","e","a","c","h">>,
       <<"l","a","w","s","u","i","t">>,
       <<"b","r","e","a","c","h">>,
       <<"l","o","s","t"," ","m","o","n","e","y">>,
       <<"e","m","e","r","g","e","n","c","y">>,
       <<"s","e","c"," ","i","n","v","e","s","t","i","g","a","t","i","o","n">>,
       <<"m","o","n","e","y"," ","l","a","u","n","d","e","r","i","n","g">>,
       <<"s","a","n","c","t","i","o","n","s">>,
       <<"i","n","s","i","d","e","r"," ","t","r","a","d","i","n","g">>,
       <<"i","d","e","n","t","i","t","y"," ","t","h","e","f","t">>,
       <<"h","a","c","k","e","d">>,
       <<"f","i","d","u","c","i","a","r","y"," ","f","a","i","l","u","r","e">>,
       <<"r","e","g","u","l","a","t","o","r","y"," ","i","n","q","u","i","r","y">> >>

bny_high ==
    << <<"f","a","i","l">>,
       <<"e","r","r","o","r">>,
       <<"u","r","g","e","n","t">>,
       <<"s","t","u","c","k">>,
       <<"i","m","m","e","d","i","a","t","e","l","y">>,
       <<"p","e","n","a","l","t","y">>,
       <<"e","s","c","a","l","a","t","e">>,
       <<"m","a","r","g","i","n"," ","c","a","l","l">>,
       <<"t","r","a","d","e"," ","f","a","i","l","u","r","e">>,
       <<"w","i","r","e"," ","m","i","s","s","i","n","g">>,
       <<"i","n","c","o","r","r","e","c","t"," ","b","a","l","a","n","c","e">>,
       <<"d","o","u","b","l","e"," ","c","h","a","r","g","e">>,
       <<"c","a","n","n","o","t"," ","w","i","t","h","d","r","a","w">>,
       <<"a","c","c","o","u","n","t"," ","f","r","o","z","e","n">>,
       <<"s","y","s","t","e","m"," ","o","u","t","a","g","e">> >>

bny_medium ==
    << <<"d","e","l","a","y">>,
       <<"s","l","o","w">>,
       <<"c","o","n","f","u","s","e","d">>,
       <<"a","c","c","e","s","s">>,
       <<"l","o","g","i","n">>,
       <<"r","e","s","e","t">>,
       <<"p","a","s","s","w","o","r","d">>,
       <<"f","e","e","s">>,
       <<"s","t","a","t","e","m","e","n","t">>,
       <<"c","l","a","r","i","f","i","c","a","t","i","o","n">>,
       <<"n","o","t"," ","w","o","r","k","i","n","g">>,
       <<"a","p","p"," ","c","r","a","s","h">> >>

zepto_critical ==
    << <<"s","p","o","i","l","e","d">>,
       <<"a","l","l","e","r","g","y">>,
       <<"s","i","c","k">>,
       <<"u","n","s","a","f","e">>,
       <<"a","c","c","i","d","e","n","t">>,
       <<"f","o","o","d"," ","p","o","i","s","o","n","i","n","g">>,
       <<"s","c","a","m">>,
       <<"s","e","x","u","a","l"," ","h","a","r","a","s","s","m","e","n","t">>,
       <<"t","h","r","e","a","t","e","n","e","d">>,
       <<"s","t","a","l","k","i","n","g">>,
       <<"s","e","v","e","r","e"," ","i","n","j","u","r","y">>,
       <<"h","o","s","p","i","t","a","l">>,
       <<"e","x","p","i","r","e","d"," ","p","r","o","d","u","c","t">>,
       <<"f","o","r","e","i","g","n"," ","o","b","j","e","c","t">>,
       <<"c","o","n","t","a","m","i","n","a","t","i","o","n">> >>

zepto_high ==
    << <<"l","a","t","e">>,
       <<"m","i","s","s","i","n","g">>,
       <<"c","o","l","d">>,
       <<"w","r","o","n","g"," ","i","t","e","m">>,
       <<"r","e","f","u","n","d">>,
       <<"c","a","n","c","e","l">>,
       <<"d","r","i","v","e","r">>,
       <<"n","e","v","e","r"," ","a","r","r","i","v","e","d">>,
       <<"s","p","i","l","l","e","d">>,
       <<"d","a","m","a","g","e","d">>,
       <<"r","u","d","e">>,
       <<"u","n","p","r","o","f","e","s","s","i","o","n","a","l">>,
       <<"v","e","h","i","c","l","e"," ","b","r","e","a","k","d","o","w","n">>,
       <<"p","a","y","m","e","n","t"," ","f","a","i","l","e","d">>,
       <<"c","h","a","r","g","e","d"," ","t","w","i","c","e">> >>

zepto_medium ==
    << <<"s","t","a","t","u","s">>,
       <<"w","h","e","r","e">>,
       <<"p","r","o","m","o">>,
       <<"c","o","u","p","o","n">>,
       <<"b","a","g">>,
       <<"i","t","e","m"," ","m","i","s","s","i","n","g">>,
       <<"c","h","a","n","g","e"," ","a","d","d","r","e","s","s">>,
       <<"a","d","d"," ","i","t","e","m">>,
       <<"p","h","o","n","e"," ","n","u","m","b","e","r">>,
       <<"c","o","n","t","a","c","t"," ","s","u","p","p","o","r","t">>,
       <<"e","t","a">> >>

DOMAINS ==
    [ bny |->
        [ id |-> "bny", name |-> "BNY",
          slaThresholds |-> [urgent |-> 4 * HourScale, standard |-> 24 * HourScale],
          riskKeywords |-> [critical |-> bny_critical, high |-> bny_high,
                            medium |-> bny_medium] ],
      zepto |->
        [ id |-> "zepto", name |-> "Zepto",
          slaThresholds |-> [urgent |-> HourScale \div 4, standard |-> 1 * HourScale],
          riskKeywords |-> [critical |-> zepto_critical, high |-> zepto_high,
                            medium |-> zepto_medium] ] ]

\* the names of the members of Object.prototype that are functions
ObjectPrototypeFunctions ==
    { "constructor", "__defineGetter__", "__defineSetter__", "hasOwnProperty",
      "__lookupGetter__", "__lookupSetter__", "isPrototypeOf", "propertyIsEnumerable",
      "toString", "valueOf", "toLocaleString" }

\* DOMAINS, MOCK_USER_CONTEXT and STARTER_QUERIES are object literals: a lookup
\* by a key they do not have themselves goes on to Object.prototype, whose
\* twelve members are found under their names (__proto__ is the prototype
\* itself, an object without a `name')
ObjectPrototype ==
    [ key \in ObjectPrototypeFunctions \cup {"__proto__"} |->
        IF key = "__proto__" THEN [kind |-> "object", name |-> "undefined"]
        ELSE [kind |-> "function",
              name |-> IF key = "constructor" THEN "Object" ELSE key] ]

\* DOMAINS[domainId] is undefined when neither the registry nor the prototype
\* has such a key
hasDomain(domainId) ==
    domainId \in (DOMAIN DOMAINS) \cup (DOMAIN ObjectPrototype)

\* MOCK_USER_CONTEXT[domainId] || {} : the customer record, named by its key
MOCK_USER_CONTEXT ==
    [ bny |-> "ctx:bny", zepto |-> "ctx:zepto" ]

\* the record as the prompts show it, JSON.stringify(userContext): a function
\* has no JSON text
userContextOf(domainId) ==
    IF domainId \in DOMAIN MOCK_USER_CONTEXT THEN MOCK_USER_CONTEXT[domainId]
    ELSE IF domainId \in DOMAIN ObjectPrototype
         THEN (IF ObjectPrototype[domainId].kind = "function" THEN "undefined" ELSE "{}")
         ELSE "{}"

(***************************************************************************)
(* geminiService.ts: the three pure helpers.                               *)
(***************************************************************************)
\* a fault: every occurrence of a phrase counts
RECURSIVE tierHitsPerOccurrence(_, _)
tierHitsPerOccurrence(lowerText, words) ==
    IF words = <<>> THEN 0
    ELSE Cardinality({k \in 0..(Len(lowerText) - Len(Head(words))) :
                        SubSeq(lowerText, k + 1, k + Len(Head(words))) = Head(words)})
         + tierHitsPerOccurrence(lowerText, Tail(words))

\* number of phrases of one tier that occur in the lowercased text
RECURSIVE tierHits(_, _)
tierHits(lowerText, words) ==
    IF words = <<>> THEN 0
    ELSE (IF includes(lowerText, Head(words)) THEN 1 ELSE 0)
         + tierHits(lowerText, Tail(words))

\* text.toLowerCase() of every text of the model
lowerCased ==
    [t \in DOMAIN characters |-> toLowerCase(characters[t])]

\* a fault: `score' lives outside the function and is not reset
keywordScoreAccumulating(lowerText, domain) ==
    (IF applied.fn = "calculateRiskScore" THEN applied.out.score ELSE 0)
    + 40 * tierHits(lowerText, domain.riskKeywords.critical)
    + 20 * tierHits(lowerText, domain.riskKeywords.high)
    + 10 * tierHits(lowerText, domain.riskKeywords.medium)

\* lines 99-101: the three forEach loops over the tiers
keywordScore(lowerText, domain) ==
    40 * tierHits(lowerText, domain.riskKeywords.critical)
    + 20 * tierHits(lowerText, domain.riskKeywords.high)
    + 10 * tierHits(lowerText, domain.riskKeywords.medium)

rawScore(text, domain) ==
    keywordScore(lowerCased[text], domain)

capScore(score) ==
    IF score > 100 THEN 100 ELSE score

\* a fault: the thresholds are exclusive
levelOfExclusive(score) ==
    IF score > 80 THEN CRITICAL
    ELSE IF score > 50 THEN HIGH
    ELSE IF score > 20 THEN MEDIUM
    ELSE LOW

levelOf(score) ==
    IF score >= 80 THEN CRITICAL
    ELSE IF score >= 50 THEN HIGH
    ELSE IF score >= 20 THEN MEDIUM
    ELSE LOW

calculateRiskScore(text, domain) ==
    LET score == capScore(rawScore(text, domain))
    IN  [score |-> score, level |-> levelOf(score)]

\* calculateRiskScore on a text given by its characters
calculateRiskScoreOfCharacters(chars, domain) ==
    LET score == capScore(keywordScore(toLowerCase(chars), domain))
    IN  [score |-> score, level |-> levelOf(score)]

\* a fault: a complaint is not urgent
isUrgentRiskOnly(intent, risk) ==
    risk = HIGH \/ risk = CRITICAL

isUrgentOf(intent, risk) ==
    risk = HIGH \/ risk = CRITICAL \/ intent = COMPLAINT

\* a fault: the complaint test comes first
slaReasonComplaintFirst(intent, risk) ==
    IF intent = COMPLAINT THEN "Complaint Priority"
    ELSE IF risk = CRITICAL THEN "Critical Risk Score (>80)"
    ELSE IF risk = HIGH THEN "High Risk Score (>50)"
    ELSE IF isUrgentOf(intent, risk) THEN "Urgent Intent Classification"
    ELSE "Standard workflow applies"

slaReasonOf(intent, risk) ==
    IF risk = CRITICAL THEN "Critical Risk Score (>80)"
    ELSE IF risk = HIGH THEN "High Risk Score (>50)"
    ELSE IF intent = COMPLAINT THEN "Complaint Priority"
    ELSE IF isUrgentOf(intent, risk) THEN "Urgent Intent Classification"
    ELSE "Standard workflow applies"

\* a fault: a breach is predicted for every target of at most one hour
checkSLAStatusBreachWithinHour(intent, risk, domain) ==
    LET isUrgent == isUrgentOf(intent, risk)
        threshold == IF isUrgent THEN domain.slaThresholds.urgent
                     ELSE domain.slaThresholds.standard
    IN  [ breachPredicted |-> threshold <= 1 * HourScale,
          timeToResolve |-> threshold,
          unit |-> "hours",
          reason |-> slaReasonOf(intent, risk) ]

checkSLAStatus(intent, risk, domain) ==
    LET isUrgent == isUrgentOf(intent, risk)
        threshold == IF isUrgent THEN domain.slaThresholds.urgent
                     ELSE domain.slaThresholds.standard
    IN  [ breachPredicted |-> isUrgent /\ threshold < 1 * HourScale,
          timeToResolve |-> threshold,
          unit |-> "hours",
          reason |-> slaReasonOf(intent, risk) ]

\* Set.prototype.add / delete on an insertion-ordered set kept as a sequence
setAdd(teams, t) ==
    IF \E k \in 1..Len(teams) : teams[k] = t THEN teams ELSE Append(teams, t)

setDelete(teams, t) ==
    SelectSeq(teams, LAMBDA x : x # t)

RECURSIVE setAddAll(_, _)
setAddAll(teams, ts) ==
    IF ts = <<>> THEN teams ELSE setAddAll(setAdd(teams, Head(ts)), Tail(ts))

\* a fault: the default team is not removed on CRITICAL
riskRoutingKeepsDefault(teams, risk) ==
    IF risk = CRITICAL
    THEN setAddAll(teams, <<"Legal & Compliance", "Senior Leadership", "Crisis Response">>)
    ELSE IF risk = HIGH
    THEN setAddAll(teams, <<"Risk Management", "L3 Support Lead">>)
    ELSE teams

riskRouting(teams, risk) ==
    IF risk = CRITICAL
    THEN setAdd(setDelete(setAddAll(teams, <<"Legal & Compliance", "Senior Leadership">>),
                          "L1 Support"),
                "Crisis Response")
    ELSE IF risk = HIGH
    THEN setAddAll(teams, <<"Risk Management", "L3 Support Lead">>)
    ELSE teams

\* a fault: the intent rules are skipped once the crisis set has taken over
intentRoutingSkippedOnCrisis(teams, intent) ==
    IF \E k \in 1..Len(teams) : teams[k] = "Crisis Response"
    THEN teams
    ELSE IF intent = COMPLAINT
    THEN setAddAll(teams, <<"Customer Retention", "Quality Assurance">>)
    ELSE IF intent = FEEDBACK
    THEN setAddAll(teams, <<"Product Management", "UX Research">>)
    ELSE teams

intentRouting(teams, intent) ==
    IF intent = COMPLAINT
    THEN setAddAll(teams, <<"Customer Retention", "Quality Assurance">>)
    ELSE IF intent = FEEDBACK
    THEN setAddAll(teams, <<"Product Management", "UX Research">>)
    ELSE teams

\* a fault: the zepto rule covers every urgent level
domainRoutingUrgentLevels(teams, intent, risk, domainId) ==
    IF domainId = "zepto"
    THEN IF intent = COMPLAINT \/ risk = HIGH \/ risk = CRITICAL
         THEN setAddAll(teams, <<"Logistics Ops", "Hub Manager">>)
         ELSE teams
    ELSE IF domainId = "bny"
    THEN IF intent = QUERY /\ risk # LOW
         THEN setAdd(teams, "Wealth Advisory")
         ELSE teams
    ELSE teams

domainRouting(teams, intent, risk, domainId) ==
    IF domainId = "zepto"
    THEN IF intent = COMPLAINT \/ risk = HIGH
         THEN setAddAll(teams, <<"Logistics Ops", "Hub Manager">>)
         ELSE teams
    ELSE IF domainId = "bny"
    THEN IF intent = QUERY /\ risk # LOW
         THEN setAdd(teams, "Wealth Advisory")
         ELSE teams
    ELSE teams

determineNotifiedTeams(intent, risk, domainId) ==
    domainRouting(intentRouting(riskRouting(setAdd(<<>>, "L1 Support"), risk), intent),
                  intent, risk, domainId)

(***************************************************************************)
(* Inputs of a run and replies of the external model.                      *)
(***************************************************************************)
MsgFraud == "There is a fraud on my account, emergency, unauthorized wire!"

MsgLate == "my order is late and driver never arrived"

MsgFees == "What are my current fees?"

MsgUrgent == "URGENT: Login reset"

Messages == {MsgFraud, MsgLate, MsgFees, MsgUrgent, ""}

\* a domain id the registry has no entry for
UnregisteredId == "acme"

\* domainId is any string: the registered ids, one without entry, and the
\* names of the members of Object.prototype
DomainIds == (DOMAIN DOMAINS) \cup {UnregisteredId} \cup (DOMAIN ObjectPrototype)

\* ChatMessage, reduced to the two fields the pipeline reads
ChatMessages == [role : {"user", "model"}, content : {MsgFees}]

Histories == UNION {[1..n -> ChatMessages] : n \in 0..MaxHistory}

\* what the classification call settles with: the promise is rejected, or it
\* is fulfilled with a text that is empty, is not JSON, is the JSON null, or
\* is a JSON object whose `intent' is absent, a (non-zero) number or a string
IntentTexts ==
    IntentType \cup {"", "COMPLAINT", "feature request", "complaint and feedback", "query"}

ClassificationReplies ==
    { [status |-> "rejected", body |-> "none", field |-> "absent", intent |-> ""],
      [status |-> "fulfilled", body |-> "empty", field |-> "absent", intent |-> ""],
      [status |-> "fulfilled", body |-> "malformed", field |-> "absent", intent |-> ""],
      [status |-> "fulfilled", body |-> "null", field |-> "absent", intent |-> ""],
      [status |-> "fulfilled", body |-> "object", field |-> "absent", intent |-> ""],
      [status |-> "fulfilled", body |-> "object", field |-> "number", intent |-> ""] }
    \cup { [status |-> "fulfilled", body |-> "object", field |-> "string", intent |-> t] :
           t \in IntentTexts }

SampleAction ==
    [label |-> "Track Transfer", text |-> "Status of wire transfer TXN-88291?", type |-> "data"]

\* the generation call: the promise is rejected, or it is fulfilled with a
\* text that is not JSON, is the JSON null, is empty, or is a JSON object:
\* `response' absent, empty or a text; `suggestedActions' absent, an array,
\* or something that is not an array
GenerationReplies ==
    { [status |-> "rejected", body |-> "none", response |-> "", actions |-> "absent",
       suggestedActions |-> <<>>],
      [status |-> "fulfilled", body |-> "malformed", response |-> "", actions |-> "absent",
       suggestedActions |-> <<>>],
      [status |-> "fulfilled", body |-> "null", response |-> "", actions |-> "absent",
       suggestedActions |-> <<>>],
      [status |-> "fulfilled", body |-> "empty", response |-> "", actions |-> "absent",
       suggestedActions |-> <<>>],
      [status |-> "fulfilled", body |-> "object", response |-> "", actions |-> "array",
       suggestedActions |-> <<SampleAction>>],
      [status |-> "fulfilled", body |-> "object", response |-> "Your fees are $1,250.00.",
       actions |-> "absent", suggestedActions |-> <<>>],
      [status |-> "fulfilled", body |-> "object", response |-> "Your fees are $1,250.00.",
       actions |-> "other", suggestedActions |-> <<>>],
      [status |-> "fulfilled", body |-> "object", response |-> "Your fees are $1,250.00.",
       actions |-> "array", suggestedActions |-> <<SampleAction>>] }

\* the validation call: `isValid' absent, true or false; `reason' absent
\* (empty) or a text
ValidationReplies ==
    { [status |-> "rejected", body |-> "none", isValid |-> "absent", reason |-> ""],
      [status |-> "fulfilled", body |-> "malformed", isValid |-> "absent", reason |-> ""],
      [status |-> "fulfilled", body |-> "null", isValid |-> "absent", reason |-> ""],
      [status |-> "fulfilled", body |-> "object", isValid |-> "absent", reason |-> ""],
      [status |-> "fulfilled", body |-> "object", isValid |-> "true",
       reason |-> "Relevant and accurate."],
      [status |-> "fulfilled", body |-> "object", isValid |-> "false",
       reason |-> "Tone is not apologetic."],
      [status |-> "fulfilled", body |-> "object", isValid |-> "false", reason |-> ""] }

NoReply == [status |-> "none"]

(***************************************************************************)
(* State: the runs of processUserRequest.  Each run is the activation      *)
(* record of one call: its arguments, its locals, its position (pc), the   *)
(* progress events it has delivered to onStepUpdate (steps), the external  *)
(* calls it has issued (calls), the call it is suspended on (awaiting),    *)
(* what each call settled with, and what it returned.  `history', `domain' *)
(* and `userContext' stand for the objects the run holds references to:    *)
(* the caller's array, the registry's entry and the customer record.       *)
(* `trace' lists, in program order, the events delivered, the calls issued *)
(* and their settlements.  `throwAt' is the number of the event at which   *)
(* the caller's callback throws (0: at none) and `thrown' tells that an    *)
(* exception is propagating; the statements that follow a throw are not    *)
(* executed, and the locals of a run that raised are dead.                 *)
(***************************************************************************)
vars == <<runs, typed, applied, app>>

RunIds == {"run"}

\* the value of DOMAINS[domainId] for a key the registry does not have
UndefinedDomain == [id |-> "undefined"]

\* a run that has not been called yet; locals hold placeholders until the
\* statement that declares them is reached
IdleRun ==
    [ pc |-> "idle",
      userMessage |-> "", history |-> <<>>, domainId |-> "",
      domain |-> UndefinedDomain, userContext |-> "",
      intent |-> UNKNOWN,
      score |-> 0, level |-> LOW,
      slaStatus |-> [breachPredicted |-> FALSE, timeToResolve |-> 0, unit |-> "hours",
                     reason |-> ""],
      notifiedTeams |-> <<>>,
      chatContents |-> <<>>,
      finalResponseText |-> "", suggestedActions |-> <<>>,
      validationPassed |-> TRUE, validationReason |-> "",
      steps |-> <<>>, calls |-> <<>>, awaiting |-> "none", trace |-> <<>>,
      throwAt |-> 0, thrown |-> FALSE,
      intentRes |-> NoReply, responseRes |-> NoReply, validationRes |-> NoReply,
      result |-> [response |-> ""] ]

NotApplied == [fn |-> "none"]

\* an activation of handleSubmit that has not been called
NoSubmission ==
    [state |-> "none", domain |-> "", userMsg |-> [id |-> 0], localSteps |-> <<>>,
     mounted |-> FALSE]

\* localStorage holds no entry titan_chat_histories (or the entry "{}")
NothingSaved == [d \in {} |-> <<>>]

\* App.tsx lines 8-20 and ChatInterface lines 91-93: the state after the
\* first render, the histories being those saved in localStorage (a domain
\* without an entry reads as the empty list: histories[currentDomain] || [])
firstRender(saved) ==
    [ activeTab |-> "chat",
      currentDomain |-> "bny",
      histories |-> [d \in DOMAIN DOMAINS |-> IF d \in DOMAIN saved THEN saved[d] ELSE <<>>],
      input |-> "",
      isProcessing |-> FALSE,
      currentSteps |-> <<>>,
      submitted |-> 0,
      submissions |-> [n \in 1..MaxSubmissions |-> NoSubmission] ]

AppInit == firstRender(NothingSaved)

Init ==
    /\ runs = [i \in RunIds |-> IdleRun]
    /\ typed = <<>>
    /\ applied = NotApplied
    /\ app = AppInit

\* onStepUpdate({agent, status, ...}): the event is delivered to the callback
onStepUpdate(r, agent, status) ==
    IF r.thrown THEN r
    ELSE [r EXCEPT !.steps = Append(@, [agent |-> agent, status |-> status]),
                   !.trace = Append(@, [event |-> "step", of |-> agent, status |-> status]),
                   !.thrown = (Len(r.steps) + 1 = r.throwAt)]

\* await ai.models.generateContent(...): the call is issued and the run is
\* suspended on it
generateContent(r, site, next) ==
    IF r.thrown THEN [r EXCEPT !.pc = "raised"]
    ELSE [r EXCEPT !.calls = Append(@, site), !.awaiting = site, !.pc = next,
                   !.trace = Append(@, [event |-> "call", of |-> site, status |-> "issued"])]

\* the run goes on with the next statement, unless an exception is propagating
proceed(r, next) ==
    [r EXCEPT !.pc = IF r.thrown THEN "raised" ELSE next]

\* the awaited call settles and the run resumes
settled(r, site) ==
    [r EXCEPT !.awaiting = "none",
              !.trace = Append(@, [event |-> "settled", of |-> site, status |-> "settled"])]

(***************************************************************************)
(* processUserRequest, one action per stage and per settlement of a call.  *)
(***************************************************************************)
\* line 188: DOMAINS[domainId]
domainOf(domainId) ==
    IF domainId \in DOMAIN DOMAINS THEN DOMAINS[domainId]
    ELSE IF hasDomain(domainId) THEN ObjectPrototype[domainId]
    ELSE UndefinedDomain

\* lines 176-225: the call; `domain.name' in the prompt raises a TypeError
\* when the lookup of domainId gave undefined
called(r, userMessage, history, domainId) ==
    LET r0 == [r EXCEPT !.userMessage = userMessage, !.history = history,
                        !.domainId = domainId,
                        !.domain = domainOf(domainId),
                        !.userContext = userContextOf(domainId)]
        r1 == onStepUpdate(r0, MASTER, "pending")
    IN  IF r0.domain = UndefinedDomain
        THEN [r1 EXCEPT !.pc = "raised"]
        ELSE generateContent([r1 EXCEPT !.intent = UNKNOWN],
                             "classification", "awaitClassification")

\* line 187: the constructor of the client throws (the library refuses to
\* build a client without an API key); the async function's promise is
\* rejected before anything else of the run has happened
constructorThrew(r, userMessage, history, domainId) ==
    [r EXCEPT !.userMessage = userMessage, !.history = history,
              !.domainId = domainId, !.pc = "raised"]

Start(i, userMessage, history, domainId) ==
    /\ runs[i].pc = "idle"
    /\ runs' = [runs EXCEPT ![i] = called(runs[i], userMessage, history, domainId)]

\* does the body of the classification try block throw
classificationThrows(reply) ==
    \/ reply.status = "rejected"
    \/ reply.body \in {"malformed", "null"}
    \/ reply.field = "number"

\* a fault: the feedback tests come before the complaint test
resolveIntentFeedbackFirst(text) ==
    IF text \in IntentType THEN text
    ELSE LET lower == lowerCased[text]
         IN  IF includes(lower, <<"f","e","e","d","b","a","c","k">>) THEN FEEDBACK
             ELSE IF includes(lower, <<"f","e","a","t","u","r","e">>) THEN FEEDBACK
             ELSE IF includes(lower, <<"c","o","m","p","l","a","i","n","t">>) THEN COMPLAINT
             ELSE QUERY

\* lines 230-237
resolveIntent(text) ==
    IF text \in IntentType THEN text
    ELSE LET lower == lowerCased[text]
         IN  IF includes(lower, <<"c","o","m","p","l","a","i","n","t">>) THEN COMPLAINT
             ELSE IF includes(lower, <<"f","e","e","d","b","a","c","k">>) THEN FEEDBACK
             ELSE IF includes(lower, <<"f","e","a","t","u","r","e">>) THEN FEEDBACK
             ELSE QUERY

\* a fault: the success event is delivered from the catch block as well
classificationCatchReportsSuccess(r) ==
    onStepUpdate([r EXCEPT !.intent = QUERY], MASTER, "success")

\* a fault: the catch block leaves the placeholder intent
classificationCatchKeepsPlaceholder(r) ==
    r

\* lines 245-248: the catch block of the classification stage
classificationCatch(r) ==
    [r EXCEPT !.intent = QUERY]

\* a fault: the success event is delivered after the try/catch
ClassifiedEventOutsideTry(r, reply) ==
    IF classificationThrows(reply)
    THEN classificationCatch(r)
    ELSE LET text == IF reply.field = "string" THEN reply.intent ELSE ""
         IN  onStepUpdate([r EXCEPT !.intent = resolveIntent(text)], MASTER, "success")

\* lines 227-248; the success event is delivered inside the try block, so
\* that an exception of the callback ends in the catch block as well
Classified(r, reply) ==
    IF classificationThrows(reply)
    THEN classificationCatch(r)
    ELSE LET text == IF reply.field = "string" THEN reply.intent ELSE ""
             r1 == onStepUpdate([r EXCEPT !.intent = resolveIntent(text)], MASTER, "success")
         IN  IF r1.thrown THEN classificationCatch([r1 EXCEPT !.thrown = FALSE]) ELSE r1

ClassificationSettles(i, reply) ==
    /\ runs[i].pc = "awaitClassification"
    /\ LET r0 == settled([runs[i] EXCEPT !.intentRes = reply], "classification")
       IN  runs' = [runs EXCEPT ![i] = proceed(Classified(r0, reply), "scoring")]

\* line 99: `domain.riskKeywords.critical' raises a TypeError when the value
\* looked up is no DomainConfig
hasRiskKeywords(domain) ==
    "riskKeywords" \in DOMAIN domain

\* a fault: only CRITICAL is reported as a warning
riskStageWarnsOnCritical(r) ==
    LET r1 == onStepUpdate(r, RISK, "pending")
        risk == calculateRiskScore(r.userMessage, r.domain)
        r2 == [r1 EXCEPT !.score = risk.score, !.level = risk.level]
    IN  IF ~hasRiskKeywords(r.domain) THEN [r1 EXCEPT !.thrown = TRUE]
        ELSE onStepUpdate(r2, RISK, IF risk.level = CRITICAL THEN "warning" ELSE "success")

\* lines 250-265
riskStage(r) ==
    LET r1 == onStepUpdate(r, RISK, "pending")
        risk == calculateRiskScore(r.userMessage, r.domain)
        r2 == [r1 EXCEPT !.score = risk.score, !.level = risk.level]
    IN  IF ~hasRiskKeywords(r.domain) THEN [r1 EXCEPT !.thrown = TRUE]
        ELSE onStepUpdate(r2, RISK,
                          IF risk.level = CRITICAL \/ risk.level = HIGH THEN "warning"
                          ELSE "success")

\* a fault: `score' and `level' are declared at module level, so that every
\* activation reads what the latest one wrote
ScoringModuleLevel(i) ==
    /\ runs[i].pc = "scoring"
    /\ LET r == riskStage(runs[i])
       IN  runs' = [j \in DOMAIN runs |->
                      IF j = i THEN proceed(r, "estimatingSLA")
                      ELSE [runs[j] EXCEPT !.score = r.score, !.level = r.level]]

Scoring(i) ==
    /\ runs[i].pc = "scoring"
    /\ runs' = [runs EXCEPT ![i] = proceed(riskStage(runs[i]), "estimatingSLA")]

\* a fault: the SLA is estimated from the placeholder intent of line 207
slaStageStaleIntent(r) ==
    LET r1 == onStepUpdate(r, SLA, "pending")
        slaStatus == checkSLAStatus(UNKNOWN, r.level, r.domain)
        r2 == [r1 EXCEPT !.slaStatus = slaStatus]
    IN  onStepUpdate(r2, SLA, IF slaStatus.breachPredicted THEN "warning" ELSE "success")

\* lines 267-284
slaStage(r) ==
    LET r1 == onStepUpdate(r, SLA, "pending")
        slaStatus == checkSLAStatus(r.intent, r.level, r.domain)
        r2 == [r1 EXCEPT !.slaStatus = slaStatus]
    IN  onStepUpdate(r2, SLA, IF slaStatus.breachPredicted THEN "warning" ELSE "success")

EstimatingSLA(i) ==
    /\ runs[i].pc = "estimatingSLA"
    /\ runs' = [runs EXCEPT ![i] = proceed(slaStage(runs[i]), "routing")]

\* a fault: the teams are chosen from the placeholder intent of line 207
routingStageStaleIntent(r) ==
    [r EXCEPT !.notifiedTeams = determineNotifiedTeams(UNKNOWN, r.level, r.domainId)]

\* lines 286-287
routingStage(r) ==
    [r EXCEPT !.notifiedTeams = determineNotifiedTeams(r.intent, r.level, r.domainId)]

Routing(i) ==
    /\ runs[i].pc = "routing"
    /\ runs' = [runs EXCEPT ![i] = [routingStage(runs[i]) EXCEPT !.pc = "generating"]]

\* lines 320-330: history.map(...) followed by push of the current message
buildChatContents(history, userMessage) ==
    Append([k \in 1..Len(history) |->
              [role |-> history[k].role, parts |-> <<[text |-> history[k].content]>>]],
           [role |-> "user", parts |-> <<[text |-> userMessage]>>])

\* a fault: the current message is pushed onto the caller's array, which is
\* then mapped
generationRequestPushesToHistory(r) ==
    LET r1 == onStepUpdate(r, SYSTEM, "pending")
        pushed == Append(r.history, [role |-> "user", content |-> r.userMessage])
        r2 == [r1 EXCEPT !.history = pushed,
                         !.chatContents =
                            [k \in 1..Len(pushed) |->
                               [role |-> pushed[k].role,
                                parts |-> <<[text |-> pushed[k].content]>>]],
                         !.finalResponseText = "", !.suggestedActions = <<>>]
    IN  generateContent(r2, "generation", "awaitGeneration")

\* a fault: the System event is delivered after the call has been issued
generationRequestCallFirst(r) ==
    LET r2 == [r EXCEPT !.chatContents = buildChatContents(r.history, r.userMessage),
                        !.finalResponseText = "", !.suggestedActions = <<>>]
    IN  onStepUpdate(generateContent(r2, "generation", "awaitGeneration"), SYSTEM, "pending")

\* a fault: the generation call is issued without `await'
generationRequestNoAwait(r) ==
    LET r1 == onStepUpdate(r, SYSTEM, "pending")
        r2 == [r1 EXCEPT !.chatContents = buildChatContents(r.history, r.userMessage),
                         !.finalResponseText = "", !.suggestedActions = <<>>]
    IN  generateContent(r2, "generation", "validating")

\* lines 289-366
generationRequest(r) ==
    LET r1 == onStepUpdate(r, SYSTEM, "pending")
        r2 == [r1 EXCEPT !.chatContents = buildChatContents(r.history, r.userMessage),
                         !.finalResponseText = "", !.suggestedActions = <<>>]
    IN  generateContent(r2, "generation", "awaitGeneration")

Generating(i) ==
    /\ runs[i].pc = "generating"
    /\ runs' = [runs EXCEPT ![i] = generationRequest(runs[i])]

\* does the body of the generation try block throw: the call rejects,
\* JSON.parse throws, or it gives null and reading `response' of it throws
generationThrows(reply) ==
    \/ reply.status = "rejected"
    \/ reply.body \in {"malformed", "null"}

GenerationFailedText == "I encountered a temporary issue processing your request. Please try again."

NoResponseText == "I apologize, I am unable to process your request at the moment."

\* a fault: the catch block leaves the reply text empty
generationCatchNoText(r) ==
    r

\* lines 374-377: the catch block of the generation stage
generationCatch(r) ==
    [r EXCEPT !.finalResponseText = GenerationFailedText]

\* lines 368-385
Generated(r, reply) ==
    LET r1 == IF generationThrows(reply)
              THEN generationCatch(r)
              ELSE [r EXCEPT !.finalResponseText =
                                IF reply.response # "" THEN reply.response
                                ELSE NoResponseText,
                             !.suggestedActions =
                                IF reply.actions = "array" THEN reply.suggestedActions
                                ELSE @]
    IN  onStepUpdate(r1, SYSTEM, "success")

GenerationSettles(i, reply) ==
    /\ runs[i].pc = "awaitGeneration"
    /\ LET r0 == settled([runs[i] EXCEPT !.responseRes = reply], "generation")
       IN  runs' = [runs EXCEPT ![i] = proceed(Generated(r0, reply), "validating")]

\* a fault: the fallback reply of a failed generation is not validated
validationRequestSkippedOnFallback(r) ==
    LET r1 == onStepUpdate(r, VALIDATION, "pending")
        r2 == [r1 EXCEPT !.validationPassed = TRUE,
                         !.validationReason = "Response meets quality standards."]
    IN  IF r.finalResponseText = GenerationFailedText
        THEN [onStepUpdate(r2, VALIDATION, "success") EXCEPT !.pc = "returning"]
        ELSE generateContent(r2, "validation", "awaitValidation")

\* lines 387-443
validationRequest(r) ==
    LET r1 == onStepUpdate(r, VALIDATION, "pending")
        r2 == [r1 EXCEPT !.validationPassed = TRUE,
                         !.validationReason = "Response meets quality standards."]
    IN  generateContent(r2, "validation", "awaitValidation")

\* a fault: a generation call that has not settled is given up and the run
\* goes on with the fallback text
ValidatingAfterTimeout(i) ==
    /\ runs[i].pc \in {"validating", "awaitGeneration"}
    /\ runs' = [runs EXCEPT ![i] =
                  validationRequest(
                      IF runs[i].pc = "awaitGeneration"
                      THEN onStepUpdate(generationCatch([runs[i] EXCEPT !.awaiting = "none"]),
                                        SYSTEM, "success")
                      ELSE runs[i])]

Validating(i) ==
    /\ runs[i].pc = "validating"
    /\ runs' = [runs EXCEPT ![i] = validationRequest(runs[i])]

validationThrows(reply) ==
    \/ reply.status = "rejected"
    \/ reply.body \in {"malformed", "null"}

\* a fault: the validation stage fails closed
validationCatchFailClosed(r) ==
    [r EXCEPT !.validationPassed = FALSE,
              !.validationReason = "Validation service unavailable."]

\* a fault: the catch block keeps the reason set before the call
validationCatchKeepsDefaultReason(r) ==
    r

\* lines 455-459: the catch block of the validation stage
validationCatch(r) ==
    [r EXCEPT !.validationReason = "Validation service unavailable."]

\* a fault: a flagged reply is withheld
ValidatedWithholdsFlagged(r, reply) ==
    LET r1 == IF validationThrows(reply)
              THEN validationCatch(r)
              ELSE [r EXCEPT !.validationPassed = (reply.isValid # "false"),
                             !.validationReason =
                                IF reply.reason # "" THEN reply.reason
                                ELSE "Validation completed."]
        r2 == IF r1.validationPassed THEN r1
              ELSE [r1 EXCEPT !.finalResponseText = GenerationFailedText,
                              !.suggestedActions = <<>>]
    IN  onStepUpdate(r2, VALIDATION, IF r2.validationPassed THEN "success" ELSE "warning")

\* a fault: a reply without a verdict counts as a failed validation
ValidatedRequiresVerdict(r, reply) ==
    LET r1 == IF validationThrows(reply)
              THEN validationCatch(r)
              ELSE [r EXCEPT !.validationPassed = (reply.isValid = "true"),
                             !.validationReason =
                                IF reply.reason # "" THEN reply.reason
                                ELSE "Validation completed."]
    IN  onStepUpdate(r1, VALIDATION, IF r1.validationPassed THEN "success" ELSE "warning")

\* lines 445-466
Validated(r, reply) ==
    LET r1 == IF validationThrows(reply)
              THEN validationCatch(r)
              ELSE [r EXCEPT !.validationPassed = (reply.isValid # "false"),
                             !.validationReason =
                                IF reply.reason # "" THEN reply.reason
                                ELSE "Validation completed."]
    IN  onStepUpdate(r1, VALIDATION, IF r1.validationPassed THEN "success" ELSE "warning")

ValidationSettles(i, reply) ==
    /\ runs[i].pc = "awaitValidation"
    /\ LET r0 == settled([runs[i] EXCEPT !.validationRes = reply], "validation")
       IN  runs' = [runs EXCEPT ![i] = proceed(Validated(r0, reply), "returning")]

\* lines 468-483
resultOf(r) ==
    [ response |-> r.finalResponseText,
      suggestedActions |-> r.suggestedActions,
      metadata |->
        [ riskScore |-> r.score,
          riskLevel |-> r.level,
          slaBreachPredicted |-> r.slaStatus.breachPredicted,
          slaTargetHours |-> r.slaStatus.timeToResolve,
          slaReason |-> r.slaStatus.reason,
          intent |-> r.intent,
          domain |-> r.domainId,
          notifiedTeams |-> r.notifiedTeams,
          validationPassed |-> r.validationPassed,
          validationReason |-> r.validationReason ] ]

Return(i) ==
    /\ runs[i].pc = "returning"
    /\ runs' = [runs EXCEPT ![i] = [runs[i] EXCEPT !.result = resultOf(runs[i]),
                                                   !.pc = "done"]]

\* one step of run i
\* the statements from a point of the run to its next await, or to its end:
\* they are one job of the event loop, which no other handler interrupts
RECURSIVE toNextAwait(_)
toNextAwait(r) ==
    CASE r.pc = "scoring"       -> toNextAwait(proceed(riskStage(r), "estimatingSLA"))
      [] r.pc = "estimatingSLA" -> toNextAwait(proceed(slaStage(r), "routing"))
      [] r.pc = "routing"       -> toNextAwait([routingStage(r) EXCEPT !.pc = "generating"])
      [] r.pc = "generating"    -> toNextAwait(generationRequest(r))
      [] r.pc = "validating"    -> toNextAwait(validationRequest(r))
      [] r.pc = "returning"     -> [r EXCEPT !.result = resultOf(r), !.pc = "done"]
      [] OTHER                  -> r

\* the call the run awaits settles with `reply': the run resumes and goes on
\* to its next await, or to its end
resumed(r, reply) ==
    CASE r.pc = "awaitClassification" ->
            toNextAwait(proceed(Classified(settled([r EXCEPT !.intentRes = reply],
                                                   "classification"), reply), "scoring"))
      [] r.pc = "awaitGeneration" ->
            toNextAwait(proceed(Generated(settled([r EXCEPT !.responseRes = reply],
                                                  "generation"), reply), "validating"))
      [] r.pc = "awaitValidation" ->
            toNextAwait(proceed(Validated(settled([r EXCEPT !.validationRes = reply],
                                                  "validation"), reply), "returning"))
      [] OTHER -> r

RunStep(i) ==
    \/ \E userMessage \in Messages, history \in Histories, domainId \in DomainIds :
          Start(i, userMessage, history, domainId)
    \/ \E reply \in ClassificationReplies : ClassificationSettles(i, reply)
    \/ Scoring(i)
    \/ EstimatingSLA(i)
    \/ Routing(i)
    \/ Generating(i)
    \/ \E reply \in GenerationReplies : GenerationSettles(i, reply)
    \/ Validating(i)
    \/ \E reply \in ValidationReplies : ValidationSettles(i, reply)
    \/ Return(i)

Next ==
    /\ \E i \in RunIds : RunStep(i)
    /\ UNCHANGED <<typed, applied, app>>

Spec == Init /\ [][Next]_vars

(***************************************************************************)
(* Concurrent runs: two activations of processUserRequest whose steps      *)
(* interleave at the await points, each with its own inputs and its own    *)
(* replies.                                                                *)
(***************************************************************************)
ConcRunIds == {"first", "second"}

ConcMessages == {MsgFraud, MsgFees}

ConcClassificationReplies ==
    { reply \in ClassificationReplies :
        reply.status = "rejected" \/ (reply.field = "string" /\ reply.intent = COMPLAINT) }

ConcGenerationReplies ==
    { reply \in GenerationReplies : reply.status = "rejected" \/ reply.actions = "array" }

ConcValidationReplies ==
    { reply \in ValidationReplies :
        reply.status = "rejected" \/ (reply.isValid = "false" /\ reply.reason # "") }

ConcInit ==
    /\ runs = [i \in ConcRunIds |-> IdleRun]
    /\ typed = <<>>
    /\ applied = NotApplied
    /\ app = AppInit

ConcStep(i) ==
    \/ \E userMessage \in ConcMessages, domainId \in DomainIds :
          Start(i, userMessage, <<>>, domainId)
    \/ \E reply \in ConcClassificationReplies : ClassificationSettles(i, reply)
    \/ Scoring(i)
    \/ EstimatingSLA(i)
    \/ Routing(i)
    \/ Generating(i)
    \/ \E reply \in ConcGenerationReplies : GenerationSettles(i, reply)
    \/ Validating(i)
    \/ \E reply \in ConcValidationReplies : ValidationSettles(i, reply)
    \/ Return(i)

ConcNext ==
    /\ \E i \in ConcRunIds : ConcStep(i)
    /\ UNCHANGED <<typed, applied, app>>

ConcSpec == ConcInit /\ [][ConcNext]_vars

(***************************************************************************)
(* A caller whose callback throws: the run is given a callback that throws *)
(* at one of its (at most ten) events, or at none.                         *)
(***************************************************************************)
ThrowPoints == 0..10

StartWithCallback(i, userMessage, history, domainId, throwAt) ==
    /\ runs[i].pc = "idle"
    /\ runs' = [runs EXCEPT ![i] =
                  called([runs[i] EXCEPT !.throwAt = throwAt], userMessage, history, domainId)]

ThrowStep(i) ==
    \/ \E userMessage \in ConcMessages, domainId \in DOMAIN DOMAINS, throwAt \in ThrowPoints :
          StartWithCallback(i, userMessage, <<>>, domainId, throwAt)
    \/ \E reply \in ConcClassificationReplies : ClassificationSettles(i, reply)
    \/ Scoring(i)
    \/ EstimatingSLA(i)
    \/ Routing(i)
    \/ Generating(i)
    \/ \E reply \in ConcGenerationReplies : GenerationSettles(i, reply)
    \/ Validating(i)
    \/ \E reply \in ConcValidationReplies : ValidationSettles(i, reply)
    \/ Return(i)

ThrowNext ==
    /\ \E i \in RunIds : ThrowStep(i)
    /\ UNCHANGED <<typed, applied, app>>

ThrowSpec == Init /\ [][ThrowNext]_vars

(***************************************************************************)
(* The chat application: App (App.tsx) keeps one history per domain and    *)
(* the current domain; ChatInterface (handleSubmit) appends the user       *)
(* message, runs the pipeline with a callback that folds the progress      *)
(* events into localSteps, and appends the bot message when the run has    *)
(* returned.  A handler sees the props and state of the render it was      *)
(* created in; the ids of the messages stand for the message objects       *)
(* (their time stamps are taken to be distinct).                           *)
(***************************************************************************)
BlankText == "   "

\* what the user types: the query of the first bny starter, or blanks
MsgTransfer == "Status of wire transfer TXN-88291?"

ChatTexts == {MsgTransfer, BlankText}

\* ChatInterface lines 14-25
STARTER_QUERIES ==
    [ bny   |->
        << [text |-> "Status of wire transfer TXN-88291?", label |-> "Track Transfer"],
           [text |-> "My compliance alert regarding Singapore login?",
            label |-> "Security Alert"],
           [text |-> "Rebalance my portfolio for Q3 based on recommendations.",
            label |-> "Portfolio Action"] >>,
      zepto |->
        << [text |-> "Where is my order ZEP-9921? It's late.", label |-> "Track Order"],
           [text |-> "I received spoiled milk in my last delivery.", label |-> "Report Issue"],
           [text |-> "Do you have any promo codes for today?", label |-> "Offers"] >> ]

\* ChatInterface line 175: STARTER_QUERIES[currentDomain] || STARTER_QUERIES['bny'];
\* a member of Object.prototype found under the key is truthy and is returned
starters(currentDomain) ==
    IF currentDomain \in DOMAIN STARTER_QUERIES THEN STARTER_QUERIES[currentDomain]
    ELSE IF currentDomain \in DOMAIN ObjectPrototype THEN ObjectPrototype[currentDomain]
    ELSE STARTER_QUERIES["bny"]

\* the starter buttons, by their position in the list: each has its handler
ClickedStarters == 1..3

\* what localStorage can hold at the first render: nothing, or what the
\* application saved in an earlier session while a run was in flight
SavedHistories ==
    { NothingSaved,
      [d \in {"bny"} |-> << [id |-> -1, role |-> "user", content |-> MsgTransfer] >>] }

\* ChatInterface line 111: overrideText || input (an absent overrideText and
\* an empty one are both falsy)
textToSend(overrideText, input) ==
    IF overrideText # "" THEN overrideText ELSE input

ChatClassificationReplies == ConcClassificationReplies

\* the generation call answers with a text and a list of suggested actions
ChatGenerationReplies ==
    { reply \in GenerationReplies : reply.actions = "array" /\ reply.response # "" }

ChatValidationReplies ==
    { reply \in ValidationReplies : reply.isValid = "false" /\ reply.reason # "" }

\* !textToSend.trim()
trimIsEmpty(text) ==
    \A k \in 1..Len(characters[text]) : characters[text][k] = " "

\* a fault: every event is appended
recordStepAppends(localSteps, step) ==
    Append(localSteps, step)

\* ChatInterface lines 136-146: the callback given to the pipeline
recordStep(localSteps, step) ==
    LET existing == {k \in 1..Len(localSteps) : localSteps[k].agent = step.agent}
    IN  IF existing # {}
        THEN [localSteps EXCEPT ![CHOOSE k \in existing : \A j \in existing : k <= j] = step]
        ELSE Append(localSteps, step)

\* the callback applied to the events of one step of the run, in order
RECURSIVE recordSteps(_, _)
recordSteps(localSteps, steps) ==
    IF steps = <<>> THEN localSteps
    ELSE recordSteps(recordStep(localSteps, Head(steps)), Tail(steps))

\* App.tsx lines 31-36
handleNewMessage(histories, currentDomain, msg) ==
    [histories EXCEPT ![currentDomain] = Append(@, msg)]

\* a fault: New Chat empties every history
handleNewChatClearsAll(histories, currentDomain) ==
    [d \in DOMAIN histories |-> <<>>]

\* App.tsx lines 38-44
handleNewChat(histories, currentDomain) ==
    [histories EXCEPT ![currentDomain] = <<>>]

ChatInit ==
    /\ runs = [n \in 1..MaxSubmissions |-> IdleRun]
    /\ typed = <<>>
    /\ applied = NotApplied
    /\ \E saved \in SavedHistories : app = firstRender(saved)

\* a fault: the run is given the history that already holds the user message
SubmitWithAppendedHistory(text) ==
    /\ app.activeTab = "chat"
    /\ ~trimIsEmpty(text)
    /\ ~app.isProcessing
    /\ app.submitted < MaxSubmissions
    /\ LET n == app.submitted + 1
           userMsg == [id |-> 2 * n - 1, role |-> "user", content |-> text]
           appended == handleNewMessage(app.histories, app.currentDomain, userMsg)
       IN  \E r \in { called(IdleRun, userMsg.content, appended[app.currentDomain],
                              app.currentDomain),
                       constructorThrew(IdleRun, userMsg.content,
                                        appended[app.currentDomain], app.currentDomain) } :
           LET localSteps == recordSteps(<<>>, r.steps)
           IN
           /\ runs' = [runs EXCEPT ![n] = r]
           /\ app' = [app EXCEPT
                        !.histories = appended,
                        !.input = "",
                        !.isProcessing = TRUE,
                        !.currentSteps = localSteps,
                        !.submitted = n,
                        !.submissions[n] =
                            [state |-> "awaiting", domain |-> app.currentDomain,
                             userMsg |-> userMsg, localSteps |-> localSteps,
                             mounted |-> TRUE]]

\* a fault: the guard does not look at isProcessing
SubmitWhileProcessing(text) ==
    /\ app.activeTab = "chat"
    /\ ~trimIsEmpty(text)
    /\ app.submitted < MaxSubmissions
    /\ LET n == app.submitted + 1
           userMsg == [id |-> 2 * n - 1, role |-> "user", content |-> text]
           messages == app.histories[app.currentDomain]
       IN  \E r \in { called(IdleRun, userMsg.content, messages, app.currentDomain),
                       constructorThrew(IdleRun, userMsg.content, messages,
                                        app.currentDomain) } :
           LET localSteps == recordSteps(<<>>, r.steps)
           IN
           /\ runs' = [runs EXCEPT ![n] = r]
           /\ app' = [app EXCEPT
                        !.histories = handleNewMessage(@, app.currentDomain, userMsg),
                        !.input = "",
                        !.isProcessing = TRUE,
                        !.currentSteps = localSteps,
                        !.submitted = n,
                        !.submissions[n] =
                            [state |-> "awaiting", domain |-> app.currentDomain,
                             userMsg |-> userMsg, localSteps |-> localSteps,
                             mounted |-> TRUE]]

\* ChatInterface lines 113-152: handleSubmit with `text' to send, up to the
\* first await of the run; when the guard of line 113 fails nothing happens
Submit(text) ==
    /\ app.activeTab = "chat"
    /\ ~trimIsEmpty(text)
    /\ ~app.isProcessing
    /\ app.submitted < MaxSubmissions
    /\ LET n == app.submitted + 1
           userMsg == [id |-> 2 * n - 1, role |-> "user", content |-> text]
           messages == app.histories[app.currentDomain]
       IN  \E r \in { called(IdleRun, userMsg.content, messages, app.currentDomain),
                       constructorThrew(IdleRun, userMsg.content, messages,
                                        app.currentDomain) } :
           LET localSteps == recordSteps(<<>>, r.steps)
           IN
           /\ runs' = [runs EXCEPT ![n] = r]
           /\ app' = [app EXCEPT
                        !.histories = handleNewMessage(@, app.currentDomain, userMsg),
                        !.input = "",
                        !.isProcessing = TRUE,
                        !.currentSteps = localSteps,
                        !.submitted = n,
                        !.submissions[n] =
                            [state |-> "awaiting", domain |-> app.currentDomain,
                             userMsg |-> userMsg, localSteps |-> localSteps,
                             mounted |-> TRUE]]

\* ChatInterface line 333: the input field, disabled while processing
Type(text) ==
    /\ app.activeTab = "chat"
    /\ ~app.isProcessing
    /\ app' = [app EXCEPT !.input = text]
    /\ UNCHANGED runs

\* ChatInterface line 329: the form is submitted
FormSubmit ==
    Submit(textToSend("", app.input))

\* ChatInterface lines 203-218: a starter button, shown while the chat is empty
StarterClick(q) ==
    /\ Len(app.histories[app.currentDomain]) = 0
    /\ Submit(textToSend(q.text, app.input))

\* ChatInterface lines 279-284: a suggested-action button of a bot message
SuggestedClick(k, a) ==
    /\ k \in 1..Len(app.histories[app.currentDomain])
    /\ LET msg == app.histories[app.currentDomain][k]
       IN  /\ msg.role = "model"
           /\ a \in 1..Len(msg.suggestedActions)
           /\ Submit(textToSend(msg.suggestedActions[a].text, app.input))

\* a call of the run of submission n settles and the run goes on to its next
\* await or to its end, in one job of the event loop; its events go through
\* the callback (lines 136-151), which also publishes a copy as currentSteps
\* (setting the state of a ChatInterface that has been unmounted does nothing)
PipelineStep(n) ==
    /\ app.submissions[n].state = "awaiting"
    /\ \/ /\ runs[n].pc = "awaitClassification"
          /\ \E reply \in ChatClassificationReplies :
                runs' = [runs EXCEPT ![n] = resumed(runs[n], reply)]
       \/ /\ runs[n].pc = "awaitGeneration"
          /\ \E reply \in ChatGenerationReplies :
                runs' = [runs EXCEPT ![n] = resumed(runs[n], reply)]
       \/ /\ runs[n].pc = "awaitValidation"
          /\ \E reply \in ChatValidationReplies :
                runs' = [runs EXCEPT ![n] = resumed(runs[n], reply)]
    /\ LET delivered == SubSeq(runs'[n].steps, Len(runs[n].steps) + 1, Len(runs'[n].steps))
           localSteps == recordSteps(app.submissions[n].localSteps, delivered)
       IN  app' = [app EXCEPT
                    !.submissions[n].localSteps = localSteps,
                    !.currentSteps = IF delivered = <<>> \/ ~app.submissions[n].mounted
                                     THEN @ ELSE localSteps]

\* ChatInterface lines 154-166: the awaited run has returned; with this the
\* activations of processUserRequest and of handleSubmit end, and their
\* locals with them
Resolve(n) ==
    /\ app.submissions[n].state = "awaiting"
    /\ runs[n].pc = "done"
    /\ LET botMsg == [ id |-> 2 * n, role |-> "model",
                       content |-> runs[n].result.response,
                       processingSteps |-> app.submissions[n].localSteps,
                       metadata |-> runs[n].result.metadata,
                       suggestedActions |-> runs[n].result.suggestedActions ]
       IN  app' = [app EXCEPT
                    !.histories = handleNewMessage(@, app.submissions[n].domain, botMsg),
                    !.isProcessing = IF app.submissions[n].mounted THEN FALSE ELSE @,
                    !.currentSteps = IF app.submissions[n].mounted THEN <<>> ELSE @,
                    !.submissions[n] = [NoSubmission EXCEPT !.state = "resolved"]]
    /\ runs' = [runs EXCEPT ![n] = IdleRun]

\* a fault: the catch block only logs
RejectStaysLocked(n) ==
    /\ app.submissions[n].state = "awaiting"
    /\ runs[n].pc = "raised"
    /\ app' = [app EXCEPT
                 !.submissions[n] = [NoSubmission EXCEPT !.state = "rejected"]]
    /\ runs' = [runs EXCEPT ![n] = IdleRun]

\* ChatInterface lines 168-171: the awaited run has raised; the catch block
\* only logs and unlocks (the steps shown stay, no message is appended)
Reject(n) ==
    /\ app.submissions[n].state = "awaiting"
    /\ runs[n].pc = "raised"
    /\ app' = [app EXCEPT
                 !.isProcessing = IF app.submissions[n].mounted THEN FALSE ELSE @,
                 !.submissions[n] = [NoSubmission EXCEPT !.state = "rejected"]]
    /\ runs' = [runs EXCEPT ![n] = IdleRun]

\* App.tsx lines 38-44, through the sidebar's New Chat button
NewChat ==
    /\ app' = [app EXCEPT !.histories = handleNewChat(@, app.currentDomain)]
    /\ UNCHANGED runs

\* App.tsx lines 46-49, through the sidebar's domain menu
DomainChange(domainId) ==
    /\ app' = [app EXCEPT !.currentDomain = domainId]
    /\ UNCHANGED runs

\* App.tsx lines 8, 58, 65-73 (Sidebar.tsx lines 102, 109): setActiveTab.
\* Leaving the chat tab unmounts ChatInterface, whose state is discarded; a
\* handleSubmit of that instance goes on and can still append to the
\* histories.  Coming back mounts a new one in its initial state (91-93).
TabChange(tab) ==
    /\ app' = IF tab = app.activeTab THEN app
              ELSE [app EXCEPT
                      !.activeTab = tab,
                      !.input = "",
                      !.isProcessing = FALSE,
                      !.currentSteps = <<>>,
                      !.submissions = [n \in DOMAIN @ |-> [@[n] EXCEPT !.mounted = FALSE]]]
    /\ UNCHANGED runs

ChatNext ==
    /\ \/ \E text \in ChatTexts : Type(text)
       \/ FormSubmit
       \/ \E k \in ClickedStarters : StarterClick(starters(app.currentDomain)[k])
       \/ \E k \in 1..(2 * MaxSubmissions), a \in 1..1 : SuggestedClick(k, a)
       \/ \E n \in 1..MaxSubmissions : PipelineStep(n)
       \/ \E n \in 1..MaxSubmissions : Resolve(n)
       \/ \E n \in 1..MaxSubmissions : Reject(n)
       \/ \E tab \in {"chat", "dashboard"} : TabChange(tab)
       \/ NewChat
       \/ \E domainId \in DOMAIN DOMAINS : DomainChange(domainId)
    /\ UNCHANGED <<typed, applied>>

ChatSpec == ChatInit /\ [][ChatNext]_vars

\* the continuation of handleSubmit after its await is a job of the event
\* loop: once the run has resolved it is run, whatever the user does
ChatFairSpec ==
    /\ ChatSpec
    /\ \A n \in 1..MaxSubmissions :
          /\ WF_vars(Resolve(n) /\ UNCHANGED <<typed, applied>>)
          /\ WF_vars(Reject(n) /\ UNCHANGED <<typed, applied>>)

(***************************************************************************)
(* Harness of the pure helpers: a text is typed phrase by phrase, and      *)
(* calculateRiskScore, the level thresholds, checkSLAStatus and            *)
(* determineNotifiedTeams are applied to inputs drawn from bounded sets;   *)
(* `applied' records the latest application with its inputs and output.    *)
(***************************************************************************)
\* longest typed text, in phrases
MaxPhrases == 3

PhrasePool ==
    { <<"F","r","a","u","d">>,
      <<"e","m","e","r","g","e","n","c","y">>,
      <<"u","n","a","u","t","h","o","r","i","z","e","d">>,
      <<"U","R","G","E","N","T">>,
      <<"f","e","e","s">>,
      <<"l","a","t","e">>,
      <<"n","e","v","e","r"," ","a","r","r","i","v","e","d">>,
      <<"h","e","l","l","o">> }

\* the typed phrases separated by single spaces
RECURSIVE joinPhrases(_)
joinPhrases(ps) ==
    IF ps = <<>> THEN <<>>
    ELSE IF Len(ps) = 1 THEN Head(ps)
    ELSE Head(ps) \o <<" ">> \o joinPhrases(Tail(ps))

\* a configuration whose phrases overlap, with thresholds at and below 1 h
OverlapConfig ==
    [ id |-> "overlap", name |-> "Overlap",
      slaThresholds |-> [urgent |-> 1 * HourScale, standard |-> HourScale \div 2],
      riskKeywords |->
        [ critical |-> << <<"f","r","a","u","d">>, <<"r","a","u","d">> >>,
          high |-> << <<"l","a","t","e">>, <<"a","t","e">>, <<"n","e","v","e","r">>,
                      <<"a","r","r","i","v","e","d">>, <<"n","e","v","e","r"," ","a","r","r","i","v","e","d">> >>,
          medium |-> << <<"f","e","e","s">>, <<"f","e","e">>, <<>> >> ] ]

DomainConfigs ==
    {DOMAINS[d] : d \in DOMAIN DOMAINS} \cup {OverlapConfig}

\* configurations that differ in their thresholds only
ThresholdConfigs ==
    { [OverlapConfig EXCEPT !.slaThresholds = [urgent |-> u, standard |-> s]] :
        u \in {HourScale \div 4, HourScale - 1, HourScale, 4 * HourScale},
        s \in {HourScale \div 2, HourScale, 24 * HourScale} }

TypePhrase(w) ==
    /\ Len(typed) < MaxPhrases
    /\ typed' = Append(typed, w)
    /\ applied' = NotApplied
    /\ UNCHANGED <<runs, app>>

ApplyRiskScore(domain) ==
    /\ applied' = [ fn |-> "calculateRiskScore", chars |-> joinPhrases(typed),
                    domain |-> domain,
                    out |-> calculateRiskScoreOfCharacters(joinPhrases(typed), domain) ]
    /\ UNCHANGED <<runs, typed, app>>

ApplyLevel(score) ==
    /\ typed = <<>>
    /\ applied' = [fn |-> "levelOf", score |-> score, out |-> levelOf(score)]
    /\ UNCHANGED <<runs, typed, app>>

ApplySLAStatus(intent, risk, domain) ==
    /\ typed = <<>>
    /\ applied' = [ fn |-> "checkSLAStatus", intent |-> intent, risk |-> risk,
                    domain |-> domain, out |-> checkSLAStatus(intent, risk, domain) ]
    /\ UNCHANGED <<runs, typed, app>>

ApplyNotifiedTeams(intent, risk, domainId) ==
    /\ typed = <<>>
    /\ applied' = [ fn |-> "determineNotifiedTeams", intent |-> intent, risk |-> risk,
                    domainId |-> domainId,
                    out |-> determineNotifiedTeams(intent, risk, domainId) ]
    /\ UNCHANGED <<runs, typed, app>>

PureNext ==
    \/ \E w \in PhrasePool : TypePhrase(w)
    \/ \E domain \in DomainConfigs : ApplyRiskScore(domain)
    \/ \E score \in 0..100 : ApplyLevel(score)
    \/ \E intent \in IntentType, risk \in RiskLevel,
          domain \in DomainConfigs \cup ThresholdConfigs :
          ApplySLAStatus(intent, risk, domain)
    \/ \E intent \in IntentType, risk \in RiskLevel, domainId \in DomainIds :
          ApplyNotifiedTeams(intent, risk, domainId)

PureSpec == Init /\ [][PureNext]_vars

(***************************************************************************)
(* Vocabulary of the properties.                                           *)
(***************************************************************************)
\* the call did not deliver a usable reply: the promise was rejected, or the
\* reply text could not be parsed or was the JSON null
callFailed(reply) ==
    \/ reply.status = "rejected"
    \/ reply.status = "fulfilled" /\ reply.body \in {"malformed", "null"}

callSettled(reply) ==
    reply.status # "none"

\* the run has delivered an event of agent `a' with a status in S
hasStep(r, a, S) ==
    \E k \in 1..Len(r.steps) : r.steps[k].agent = a /\ r.steps[k].status \in S

\* a pending event of agent `a' and, later, an exit event of the same agent
pendingThenExit(r, a) ==
    \E p, q \in 1..Len(r.steps) :
        /\ p < q
        /\ r.steps[p] = [agent |-> a, status |-> "pending"]
        /\ r.steps[q].agent = a
        /\ r.steps[q].status \in {"success", "warning"}

\* the ten metadata fields of a complete result
MetadataFields ==
    {"riskScore", "riskLevel", "slaBreachPredicted", "slaTargetHours", "slaReason",
     "intent", "domain", "notifiedTeams", "validationPassed", "validationReason"}

completeResult(r) ==
    /\ DOMAIN r.result = {"response", "suggestedActions", "metadata"}
    /\ DOMAIN r.result.metadata = MetadataFields
    /\ r.result.metadata.domain = r.domainId

\* the order in which the agents report
AgentOrder == <<MASTER, RISK, SLA, SYSTEM, VALIDATION>>

\* the orchestrator state a position belongs to: Classifying, Scoring,
\* EstimatingSLA, Routing, Generating, Validating, Done
stageOf(pc) ==
    CASE pc = "idle" -> 0
      [] pc = "awaitClassification" -> 1
      [] pc = "scoring" -> 2
      [] pc = "estimatingSLA" -> 3
      [] pc = "routing" -> 4
      [] pc \in {"generating", "awaitGeneration"} -> 5
      [] pc \in {"validating", "awaitValidation"} -> 6
      [] pc \in {"returning", "done"} -> 7

\* calls issued and not yet settled
outstanding(r) ==
    Len(r.calls) - Cardinality({s \in {"intentRes", "responseRes", "validationRes"} :
                                  callSettled(r[s])})

(***************************************************************************)
(* C1: processUserRequest never raises and, when it has returned, the      *)
(* result is complete (reply, suggested actions, the ten metadata fields,  *)
(* domain = domainId), for every message, history, domain id and outcome   *)
(* of the three calls.  Violated: a domain id without a registry entry     *)
(* raises a TypeError at `domain.name'.                                    *)
(***************************************************************************)
C1_NeverRaisesCompleteResult ==
    \A i \in RunIds :
        /\ runs[i].pc # "raised"
        /\ runs[i].pc = "done" => completeResult(runs[i])

(***************************************************************************)
(* C2: when all three external calls fail, the run returns with intent     *)
(* QUERY, the keyword scorer's score and level, the generation-failure     *)
(* apology, no suggested actions, validationPassed = true and the          *)
(* validation-unavailable reason.                                          *)
(***************************************************************************)
allCallsFailed(r) ==
    callFailed(r.intentRes) /\ callFailed(r.responseRes) /\ callFailed(r.validationRes)

totalFailureResult(r, reason) ==
    allCallsFailed(r) =>
        /\ r.pc \in {"returning", "done"}
        /\ r.pc = "done" =>
              /\ r.result.metadata.intent = QUERY
              /\ r.result.metadata.riskScore =
                    calculateRiskScore(r.userMessage, DOMAINS[r.domainId]).score
              /\ r.result.metadata.riskLevel =
                    calculateRiskScore(r.userMessage, DOMAINS[r.domainId]).level
              /\ r.result.response = GenerationFailedText
              /\ r.result.suggestedActions = <<>>
              /\ r.result.metadata.validationPassed = TRUE
              /\ r.result.metadata.validationReason = reason

\* C2 as amended: the reason is the code's literal, which ends in a full stop
C2_TotalFailure ==
    \A i \in RunIds : totalFailureResult(runs[i], "Validation service unavailable.")

\* C2 as stated: the reason is "Validation service unavailable"
C2_TotalFailureAsStated ==
    \A i \in RunIds : totalFailureResult(runs[i], "Validation service unavailable")

C2_Witness ==
    \E i \in RunIds :
        /\ runs[i].pc = "done"
        /\ allCallsFailed(runs[i])
        /\ runs[i].result.metadata.riskLevel = CRITICAL

(***************************************************************************)
(* C3: a run moves through the stages in the fixed order Classifying,      *)
(* Scoring, EstimatingSLA, Routing, Generating, Validating, Done, one      *)
(* stage at a time and never backwards, whatever the calls settle with;    *)
(* the SLA estimate and the routing are computed from the intent and the   *)
(* risk level the earlier stages of the same run left, which no later      *)
(* stage changes.                                                          *)
(***************************************************************************)
stageStep(r, s) ==
    /\ s.pc # "raised" =>
          stageOf(s.pc) \in {stageOf(r.pc), stageOf(r.pc) + 1}
    /\ r.pc = "estimatingSLA" /\ s.pc # r.pc =>
          s.slaStatus = checkSLAStatus(r.intent, r.level, DOMAINS[r.domainId])
    /\ r.pc = "routing" /\ s.pc # r.pc =>
          s.notifiedTeams = determineNotifiedTeams(r.intent, r.level, r.domainId)
    /\ stageOf(r.pc) >= 2 => s.intent = r.intent
    /\ stageOf(r.pc) >= 3 => s.score = r.score /\ s.level = r.level

C3_FixedStageOrder ==
    [][\A i \in RunIds : runs[i].pc # "raised" => stageStep(runs[i], runs'[i])]_vars

C3_Witness ==
    \E i \in RunIds :
        /\ runs[i].pc = "done"
        /\ callFailed(runs[i].intentRes)
        /\ ~callFailed(runs[i].responseRes)
        /\ runs[i].level = HIGH
        /\ runs[i].slaStatus.breachPredicted

(***************************************************************************)
(* C4: in every run that has returned, every agent has delivered a pending *)
(* event and, later, an exit event with status success or warning.         *)
(* Violated: when the classification try block throws, the Master agent    *)
(* delivers no exit event.                                                 *)
(***************************************************************************)
C4_EveryStageExits ==
    \A i \in RunIds :
        runs[i].pc = "done" => \A a \in AgentType : pendingThenExit(runs[i], a)

(***************************************************************************)
(* C5: for every two consecutive agents, each pending event of the later   *)
(* one is preceded by a completion (non-pending) event of the earlier one. *)
(* Violated with C4: after a failed classification the Risk agent's        *)
(* pending event follows no completion event of the Master agent.          *)
(***************************************************************************)
completionBeforePending(r, a, b) ==
    \A q \in 1..Len(r.steps) :
        r.steps[q] = [agent |-> b, status |-> "pending"] =>
            \E p \in 1..(q - 1) :
                r.steps[p].agent = a /\ r.steps[p].status # "pending"

C5_CompletionBeforeNextPending ==
    \A i \in RunIds :
        \A k \in 1..(Len(AgentOrder) - 1) :
            completionBeforePending(runs[i], AgentOrder[k], AgentOrder[k + 1])

(***************************************************************************)
(* C6 (scenario D): when the classification call fails, the intent is      *)
(* QUERY, the only status onStepUpdate receives for the Master agent is a  *)
(* non-success one, every downstream agent delivers its pending and its    *)
(* exit event after that, and the run returns a complete result.           *)
(***************************************************************************)
C6_ClassificationFailure ==
    \A i \in RunIds :
        callFailed(runs[i].intentRes) =>
            /\ runs[i].pc # "raised"
            /\ runs[i].intent = QUERY
            /\ hasStep(runs[i], MASTER, StepStatus \ {"success"})
            /\ ~hasStep(runs[i], MASTER, {"success"})
            /\ runs[i].pc = "done" =>
                  /\ \A a \in {RISK, SLA, SYSTEM, VALIDATION} : pendingThenExit(runs[i], a)
                  /\ runs[i].steps[1].agent = MASTER
                  /\ \A k \in 2..Len(runs[i].steps) : runs[i].steps[k].agent # MASTER
                  /\ completeResult(runs[i])
                  /\ runs[i].result.metadata.intent = QUERY

C6_Witness ==
    \E i \in RunIds :
        /\ runs[i].pc = "done"
        /\ runs[i].intentRes.status = "rejected"
        /\ ~callFailed(runs[i].responseRes)
        /\ ~callFailed(runs[i].validationRes)

(***************************************************************************)
(* C7: whenever a call of a run has failed, the run's events include one   *)
(* of the affected agent (Master for classification, System for            *)
(* generation, Validation for validation) with status warning or error.    *)
(* Violated: no failure changes the status the agent reports.              *)
(***************************************************************************)
degradationReported(r, reply, a) ==
    callFailed(reply) => hasStep(r, a, {"warning", "error"})

C7_DegradationObservable ==
    \A i \in RunIds :
        runs[i].pc = "done" =>
            /\ degradationReported(runs[i], runs[i].intentRes, MASTER)
            /\ degradationReported(runs[i], runs[i].responseRes, SYSTEM)
            /\ degradationReported(runs[i], runs[i].validationRes, VALIDATION)

(***************************************************************************)
(* C8: the calls a run has issued are always a prefix of classification,   *)
(* generation, validation (no call is repeated), and a run that has        *)
(* returned has issued all three, whatever they settled with.              *)
(***************************************************************************)
CallOrder == <<"classification", "generation", "validation">>

C8_ThreeCallsOnce ==
    \A i \in RunIds :
        /\ Len(runs[i].calls) <= Len(CallOrder)
        /\ runs[i].calls = SubSeq(CallOrder, 1, Len(runs[i].calls))
        /\ runs[i].pc \in {"returning", "done"} => runs[i].calls = CallOrder

C8_Witness ==
    \E i \in RunIds :
        /\ runs[i].pc = "done"
        /\ runs[i].intentRes.body = "malformed"
        /\ runs[i].responseRes.status = "rejected"
        /\ runs[i].validationRes.status = "fulfilled"

(***************************************************************************)
(* C9: at most one call of a run is outstanding, and while one is, the run *)
(* delivers no event, issues no call and does not move, except in the      *)
(* step in which that call settles.                                        *)
(***************************************************************************)
suspendedStep(r, s) ==
    (outstanding(r) > 0 /\ s # r) =>
        /\ outstanding(s) = outstanding(r) - 1
        /\ Len(s.calls) = Len(r.calls)

C9_NoOverlap ==
    /\ [](\A i \in RunIds : outstanding(runs[i]) \in {0, 1})
    /\ [][\A i \in RunIds : suspendedStep(runs[i], runs'[i])]_vars

C9_Witness ==
    \E i \in RunIds :
        /\ runs[i].pc = "awaitGeneration"
        /\ outstanding(runs[i]) = 1
        /\ Len(runs[i].steps) >= 7

(***************************************************************************)
(* C10: a run that has been started and can take no further step is Done:  *)
(* Done is the only terminal state.  Violated with C1: the run for an      *)
(* unregistered domain id ends raised, before any call is issued.          *)
(***************************************************************************)
C10_DoneOnlyTerminal ==
    \A i \in RunIds :
        runs[i].pc # "idle" => (runs[i].pc = "done" \/ ENABLED RunStep(i))

(***************************************************************************)
(* C11: whatever the validation call settles with, the returned reply and  *)
(* suggested actions are the ones the generation stage produced from the   *)
(* generation reply; a negative verdict shows only as validationPassed =   *)
(* false with the verdict's reason in the metadata and as the warning      *)
(* status of the Validation agent's exit event.                            *)
(***************************************************************************)
negativeVerdict(reply) ==
    reply.status = "fulfilled" /\ reply.body = "object" /\ reply.isValid = "false"

C11_ValidationDoesNotAlterReply ==
    \A i \in RunIds :
        runs[i].pc = "done" =>
            /\ runs[i].result.response =
                  Generated(IdleRun, runs[i].responseRes).finalResponseText
            /\ runs[i].result.suggestedActions =
                  Generated(IdleRun, runs[i].responseRes).suggestedActions
            /\ negativeVerdict(runs[i].validationRes) =>
                  /\ runs[i].result.metadata.validationPassed = FALSE
                  /\ runs[i].validationRes.reason # "" =>
                        runs[i].result.metadata.validationReason =
                           runs[i].validationRes.reason
                  /\ runs[i].steps[Len(runs[i].steps)] =
                        [agent |-> VALIDATION, status |-> "warning"]

C11_Witness ==
    \E i \in RunIds :
        /\ runs[i].pc = "done"
        /\ negativeVerdict(runs[i].validationRes)
        /\ runs[i].result.response = "Your fees are $1,250.00."
        /\ runs[i].result.suggestedActions = <<SampleAction>>

(***************************************************************************)
(* C12: when the validation call fails, whatever the other two calls       *)
(* settled with, validationPassed is true, validationReason is the         *)
(* validation-unavailable reason, and the generated reply is delivered.    *)
(***************************************************************************)
validationFailureResult(r, reason) ==
    callFailed(r.validationRes) =>
        /\ r.pc \in {"returning", "done"}
        /\ r.validationPassed = TRUE
        /\ r.validationReason = reason
        /\ r.pc = "done" =>
              /\ r.result.metadata.validationPassed = TRUE
              /\ r.result.metadata.validationReason = reason
              /\ r.result.response = r.finalResponseText
              /\ r.result.response # ""

\* C12 as amended: the reason is the code's literal, which ends in a full stop
C12_ValidationFailOpen ==
    \A i \in RunIds : validationFailureResult(runs[i], "Validation service unavailable.")

\* C12 as stated: the reason is "Validation service unavailable"
C12_ValidationFailOpenAsStated ==
    \A i \in RunIds : validationFailureResult(runs[i], "Validation service unavailable")

C12_Witness ==
    \E i \in RunIds :
        /\ runs[i].pc = "done"
        /\ runs[i].validationRes.status = "rejected"
        /\ runs[i].intentRes.field = "string"
        /\ runs[i].responseRes.body = "object"
        /\ runs[i].result.response = "Your fees are $1,250.00."

(***************************************************************************)
(* C13: the reply of a degraded generation stage.                          *)
(***************************************************************************)
\* the call failed, or its reply could not be parsed or was the JSON null
generationCallDegraded(reply) ==
    \/ reply.status = "rejected"
    \/ reply.status = "fulfilled" /\ reply.body \in {"malformed", "null"}

\* the reply parsed, but carries no (or an empty) `response'
generationAnswerMissing(reply) ==
    reply.status = "fulfilled" /\ reply.body \in {"empty", "object"} /\ reply.response = ""

\* C13 as amended: a failed call or unparseable reply gives the failure
\* apology and no suggested actions; a parsed reply without `response' gives
\* the other apology text and keeps the suggested actions the reply carries
C13_GenerationFallback ==
    \A i \in RunIds :
        runs[i].pc = "done" =>
            /\ generationCallDegraded(runs[i].responseRes) =>
                  /\ runs[i].result.response = GenerationFailedText
                  /\ runs[i].result.suggestedActions = <<>>
            /\ generationAnswerMissing(runs[i].responseRes) =>
                  /\ runs[i].result.response = NoResponseText
                  /\ runs[i].result.suggestedActions =
                        IF runs[i].responseRes.actions = "array"
                        THEN runs[i].responseRes.suggestedActions
                        ELSE <<>>

\* C13 as stated: in all three cases the reply is one and the same apology
\* text (the one of the call-failure fallback) and the action list is empty
C13_OneApologyNoActions ==
    \A i \in RunIds :
        (/\ runs[i].pc = "done"
         /\ \/ generationCallDegraded(runs[i].responseRes)
            \/ generationAnswerMissing(runs[i].responseRes)) =>
            /\ runs[i].result.response = GenerationFailedText
            /\ runs[i].result.suggestedActions = <<>>

C13_Witness ==
    \E i \in RunIds :
        /\ runs[i].pc = "done"
        /\ generationAnswerMissing(runs[i].responseRes)
        /\ runs[i].result.response = NoResponseText
        /\ runs[i].result.suggestedActions = <<SampleAction>>

(***************************************************************************)
(* C14: the intent is the reply's value when that is an IntentType value;  *)
(* else COMPLAINT when the lowercased reply text contains "complaint",     *)
(* else FEEDBACK when it contains "feedback" or "feature", else QUERY;     *)
(* QUERY when the call fails or the reply cannot be used.  Once the call   *)
(* has been issued the stage does not raise.                               *)
(***************************************************************************)
replyUnusable(reply) ==
    \/ reply.status = "rejected"
    \/ reply.body \in {"malformed", "null"}
    \/ reply.field = "number"

expectedIntent(reply) ==
    IF replyUnusable(reply) THEN QUERY
    ELSE LET text == IF reply.field = "string" THEN reply.intent ELSE ""
             lower == lowerCased[text]
         IN  CASE text \in {QUERY, FEEDBACK, COMPLAINT, UNKNOWN} -> text
               [] OTHER ->
                    IF includes(lower, <<"c","o","m","p","l","a","i","n","t">>)
                    THEN COMPLAINT
                    ELSE IF \/ includes(lower, <<"f","e","e","d","b","a","c","k">>)
                            \/ includes(lower, <<"f","e","a","t","u","r","e">>)
                    THEN FEEDBACK
                    ELSE QUERY

C14_IntentResolution ==
    \A i \in RunIds :
        callSettled(runs[i].intentRes) =>
            /\ runs[i].pc = "raised" => hasStep(runs[i], RISK, {"pending"})
            /\ runs[i].intent = expectedIntent(runs[i].intentRes)

C14_Witness ==
    \E i \in RunIds :
        /\ runs[i].pc = "done"
        /\ runs[i].intentRes.intent = "complaint and feedback"
        /\ runs[i].result.metadata.intent = COMPLAINT

(***************************************************************************)
(* C15: for every text and configuration calculateRiskScore returns an     *)
(* integer score between 0 and 100 (and one of the four levels), and a     *)
(* repeated application to the same input returns the same score and       *)
(* level.                                                                  *)
(***************************************************************************)
riskApplied ==
    applied.fn = "calculateRiskScore"

C15_ScoreRangeDeterministic ==
    /\ [](riskApplied =>
            /\ applied.out.score \in 0..100
            /\ applied.out.level \in RiskLevel)
    /\ [][(/\ riskApplied
           /\ riskApplied'
           /\ applied'.chars = applied.chars
           /\ applied'.domain = applied.domain) => applied'.out = applied.out]_vars

C15_Witness ==
    /\ riskApplied
    /\ Len(typed) = MaxPhrases
    /\ applied.domain = OverlapConfig
    /\ applied.out.score = 100

(***************************************************************************)
(* C16: the score is min(100, 40 c + 20 h + 10 m), c, h and m being the    *)
(* numbers of configured phrases of the critical, high and medium tier     *)
(* that occur in the lowercased text, each counted once however often it   *)
(* occurs (fraud + unauthorized + emergency on bny: 120, clamped to 100).  *)
(***************************************************************************)
phrasesOccurring(lowerText, words) ==
    Cardinality({k \in 1..Len(words) : includes(lowerText, words[k])})

weightedHits(chars, domain) ==
    40 * phrasesOccurring(toLowerCase(chars), domain.riskKeywords.critical)
    + 20 * phrasesOccurring(toLowerCase(chars), domain.riskKeywords.high)
    + 10 * phrasesOccurring(toLowerCase(chars), domain.riskKeywords.medium)

C16_ScoreFormula ==
    riskApplied =>
        LET total == weightedHits(applied.chars, applied.domain)
        IN  applied.out.score = IF total < 100 THEN total ELSE 100

C16_Witness ==
    /\ riskApplied
    /\ applied.domain = DOMAINS["bny"]
    /\ weightedHits(applied.chars, applied.domain) = 120
    /\ applied.out.score = 100

(***************************************************************************)
(* C17: the level is decided by the score alone: CRITICAL from 80, HIGH    *)
(* from 50 to 79, MEDIUM from 20 to 49, LOW below 20; every score of       *)
(* 0..100 has exactly one level.                                           *)
(***************************************************************************)
levelMatches(score, level) ==
    /\ level \in RiskLevel
    /\ level = CRITICAL <=> score >= 80
    /\ level = HIGH <=> (50 <= score /\ score < 80)
    /\ level = MEDIUM <=> (20 <= score /\ score < 50)
    /\ level = LOW <=> score < 20

C17_LevelThresholds ==
    /\ applied.fn = "levelOf" => levelMatches(applied.score, applied.out)
    /\ riskApplied => levelMatches(applied.out.score, applied.out.level)

C17_Witness ==
    /\ applied.fn = "levelOf"
    /\ applied.score = 80
    /\ applied.out = CRITICAL

(***************************************************************************)
(* C18: checkSLAStatus returns the urgent threshold as target when the     *)
(* level is HIGH or CRITICAL or the intent is COMPLAINT, the standard      *)
(* threshold otherwise, and predicts a breach exactly when urgent and the  *)
(* target is below one hour.                                               *)
(***************************************************************************)
slaApplied ==
    applied.fn = "checkSLAStatus"

urgentCase ==
    applied.risk \in {HIGH, CRITICAL} \/ applied.intent = COMPLAINT

C18_SLATarget ==
    slaApplied =>
        /\ applied.out.timeToResolve =
              IF urgentCase THEN applied.domain.slaThresholds.urgent
              ELSE applied.domain.slaThresholds.standard
        /\ applied.out.breachPredicted <=>
              (urgentCase /\ applied.out.timeToResolve < 1 * HourScale)

C18_Witness ==
    /\ slaApplied
    /\ applied.intent = COMPLAINT
    /\ applied.risk = LOW
    /\ applied.out.timeToResolve = HourScale - 1
    /\ applied.out.breachPredicted

(***************************************************************************)
(* C19: the SLA reason is one of five fixed strings, the first that        *)
(* applies: the critical-risk reason for level CRITICAL, the high-risk     *)
(* reason for level HIGH, "Complaint Priority" for intent COMPLAINT,       *)
(* "Urgent Intent Classification" when urgent for none of these, else      *)
(* "Standard workflow applies".                                            *)
(***************************************************************************)
reasonByPrecedence(criticalReason, highReason) ==
    IF applied.risk = CRITICAL THEN criticalReason
    ELSE IF applied.risk = HIGH THEN highReason
    ELSE IF applied.intent = COMPLAINT THEN "Complaint Priority"
    ELSE IF urgentCase THEN "Urgent Intent Classification"
    ELSE "Standard workflow applies"

\* C19 as amended: the two risk reasons carry the threshold, as in the code
C19_SLAReason ==
    slaApplied =>
        applied.out.reason =
            reasonByPrecedence("Critical Risk Score (>80)", "High Risk Score (>50)")

\* C19 as stated: "Critical Risk Score" and "High Risk Score"
C19_SLAReasonAsStated ==
    slaApplied =>
        applied.out.reason = reasonByPrecedence("Critical Risk Score", "High Risk Score")

C19_Witness ==
    /\ slaApplied
    /\ applied.risk = CRITICAL
    /\ applied.intent = COMPLAINT
    /\ applied.out.reason = "Critical Risk Score (>80)"

(***************************************************************************)
(* C20: determineNotifiedTeams returns a non-empty list without            *)
(* duplicates; for level CRITICAL it holds the three crisis teams and not  *)
(* the default team, for every other level it holds the default team.      *)
(***************************************************************************)
teamsApplied ==
    applied.fn = "determineNotifiedTeams"

teamIn(t, teams) ==
    \E k \in 1..Len(teams) : teams[k] = t

C20_NotifiedTeams ==
    teamsApplied =>
        /\ Len(applied.out) > 0
        /\ \A j, k \in 1..Len(applied.out) : applied.out[j] = applied.out[k] => j = k
        /\ applied.risk = CRITICAL =>
              /\ ~teamIn("L1 Support", applied.out)
              /\ \A t \in {"Legal & Compliance", "Senior Leadership", "Crisis Response"} :
                    teamIn(t, applied.out)
        /\ applied.risk # CRITICAL => teamIn("L1 Support", applied.out)

C20_Witness ==
    /\ teamsApplied
    /\ applied.risk = CRITICAL
    /\ applied.intent = COMPLAINT
    /\ applied.domainId = UnregisteredId
    /\ Len(applied.out) = 5

(***************************************************************************)
(* C21: the risk rules and the intent rules of the routing both apply:     *)
(* HIGH adds Risk Management and L3 Support Lead and keeps L1 Support;     *)
(* COMPLAINT adds Customer Retention and Quality Assurance, FEEDBACK adds  *)
(* Product Management and UX Research, at every level, CRITICAL included;  *)
(* QUERY and UNKNOWN add none of the four intent teams.                    *)
(***************************************************************************)
notified(t) ==
    teamIn(t, applied.out)

C21_RiskAndIntentRouting ==
    teamsApplied =>
        /\ applied.risk = HIGH =>
              notified("Risk Management") /\ notified("L3 Support Lead") /\ notified("L1 Support")
        /\ \A t \in {"Risk Management", "L3 Support Lead"} :
              notified(t) => applied.risk = HIGH
        /\ \A t \in {"Customer Retention", "Quality Assurance"} :
              notified(t) <=> applied.intent = COMPLAINT
        /\ \A t \in {"Product Management", "UX Research"} :
              notified(t) <=> applied.intent = FEEDBACK

C21_Witness ==
    /\ teamsApplied
    /\ applied.risk = CRITICAL
    /\ applied.intent = FEEDBACK
    /\ notified("Product Management")
    /\ notified("UX Research")
    /\ notified("Crisis Response")

(***************************************************************************)
(* C22: concurrent runs are independent.  Whatever the interleaving, a     *)
(* run that has returned holds the result, the progress events and the     *)
(* whole record it would hold had it executed alone with the same inputs   *)
(* and the same replies; a run that raised looks as it would alone; and a  *)
(* step of one run changes nothing of another run.                         *)
(***************************************************************************)
\* the run executed alone: the stages composed in program order
aloneUpTo(userMessage, history, domainId, intentRes, responseRes, validationRes) ==
    LET s1 == called(IdleRun, userMessage, history, domainId)
        s2 == Classified(settled([s1 EXCEPT !.intentRes = intentRes], "classification"),
                         intentRes)
        scored == riskStage(s2)
        s3 == routingStage(slaStage(scored))
        s4 == generationRequest(s3)
        s5 == Generated(settled([s4 EXCEPT !.responseRes = responseRes], "generation"),
                        responseRes)
        s6 == validationRequest(s5)
        s7 == Validated(settled([s6 EXCEPT !.validationRes = validationRes], "validation"),
                        validationRes)
    IN  IF s1.pc = "raised" THEN s1
        ELSE IF scored.thrown THEN proceed(scored, "estimatingSLA")
        ELSE [s7 EXCEPT !.result = resultOf(s7), !.pc = "done"]

alone(r) ==
    aloneUpTo(r.userMessage, r.history, r.domainId, r.intentRes, r.responseRes,
              r.validationRes)

C22_RunsIndependent ==
    /\ [](\A i \in DOMAIN runs :
            runs[i].pc \in {"done", "raised"} => runs[i] = alone(runs[i]))
    /\ [][\A i, j \in DOMAIN runs :
            (i # j /\ runs'[i] # runs[i]) => runs'[j] = runs[j]]_vars

C22_Witness ==
    /\ runs["first"].pc = "done"
    /\ runs["second"].pc = "done"
    /\ runs["first"].userMessage = MsgFraud
    /\ runs["second"].userMessage = MsgFees
    /\ runs["first"].domainId = "bny"
    /\ runs["second"].domainId = "zepto"
    /\ runs["first"].result.metadata.riskLevel = CRITICAL
    /\ runs["second"].result.metadata.riskLevel = LOW
    /\ callFailed(runs["first"].intentRes)
    /\ ~callFailed(runs["second"].intentRes)

(***************************************************************************)
(* C23: the turn list of the generation request is the prior history in    *)
(* its order followed by the current user message as the one final turn:   *)
(* it is one longer than the history, and the history the chat hands over  *)
(* does not hold the message being submitted.                              *)
(***************************************************************************)
inFlight(n) ==
    app.submissions[n].state = "awaiting"

turnOf(msg) ==
    [role |-> msg.role, parts |-> <<[text |-> msg.content]>>]

generationIssued(r) ==
    \E k \in 1..Len(r.calls) : r.calls[k] = "generation"

C23_TurnList ==
    \A n \in 1..MaxSubmissions :
        inFlight(n) =>
            LET r == runs[n]
                userMsg == app.submissions[n].userMsg
            IN  /\ r.userMessage = userMsg.content
                /\ \A k \in 1..Len(r.history) : r.history[k].id # userMsg.id
                /\ generationIssued(r) =>
                      /\ Len(r.chatContents) = Len(r.history) + 1
                      /\ \A k \in 1..Len(r.history) : r.chatContents[k] = turnOf(r.history[k])
                      /\ r.chatContents[Len(r.chatContents)] = turnOf(userMsg)

C23_Witness ==
    /\ inFlight(2)
    /\ generationIssued(runs[2])
    /\ Len(runs[2].history) = 2
    /\ runs[2].history[2].role = "model"
    /\ Len(runs[2].chatContents) = 3

(***************************************************************************)
(* C24: a run leaves its inputs unchanged.  From the call on, the caller's *)
(* history list, the DomainConfig and the customer record the run holds    *)
(* are what they were when the run was called, step after step; the turns  *)
(* of the generation request are a list of their own, one longer than the  *)
(* history.                                                                *)
(***************************************************************************)
inputsOf(r) ==
    [history |-> r.history, domain |-> r.domain, userContext |-> r.userContext]

C24_InputsUnchanged ==
    /\ [][\A i \in DOMAIN runs :
            runs[i].pc # "idle" => inputsOf(runs'[i]) = inputsOf(runs[i])]_vars
    /\ [](\A i \in DOMAIN runs :
            runs[i].pc \notin {"idle", "raised"} =>
                /\ runs[i].domain = domainOf(runs[i].domainId)
                /\ runs[i].userContext = userContextOf(runs[i].domainId)
                /\ \A k \in 1..Len(runs[i].history) : runs[i].history[k] \in ChatMessages
                /\ "generation" \in {runs[i].calls[k] : k \in 1..Len(runs[i].calls)} =>
                      Len(runs[i].chatContents) = Len(runs[i].history) + 1)

C24_Witness ==
    \E i \in DOMAIN runs :
        /\ runs[i].pc = "done"
        /\ Len(runs[i].history) = MaxHistory
        /\ Len(runs[i].chatContents) = MaxHistory + 1
        /\ runs[i].domain = DOMAINS["zepto"]

(***************************************************************************)
(* C25: the chat treats events of the same agent as an update in place.    *)
(* After any sequence of progress events of a run, its trace (localSteps,  *)
(* published as currentSteps and stored with the bot message) has at most  *)
(* one entry per agent, the entry is the agent's latest event, and the     *)
(* entries are in the order of the agents' first events.                   *)
(***************************************************************************)
positionsOf(steps, a) ==
    {k \in 1..Len(steps) : steps[k].agent = a}

onePerAgent(trace) ==
    \A j, k \in 1..Len(trace) : trace[j].agent = trace[k].agent => j = k

latestPerAgent(trace, steps) ==
    /\ onePerAgent(trace)
    /\ {trace[k].agent : k \in 1..Len(trace)} = {steps[k].agent : k \in 1..Len(steps)}
    /\ \A k \in 1..Len(trace) :
          \E p \in positionsOf(steps, trace[k].agent) :
              /\ \A q \in positionsOf(steps, trace[k].agent) : q <= p
              /\ trace[k] = steps[p]
    /\ \A j, k \in 1..Len(trace) :
          j < k => \E p \in positionsOf(steps, trace[j].agent) :
                      \A q \in positionsOf(steps, trace[k].agent) : p < q

C25_UpdateInPlace ==
    /\ \A n \in 1..MaxSubmissions :
          inFlight(n) =>
              /\ latestPerAgent(app.submissions[n].localSteps, runs[n].steps)
              /\ app.submissions[n].mounted =>
                    app.currentSteps = app.submissions[n].localSteps
    /\ \A d \in DOMAIN app.histories :
          \A k \in 1..Len(app.histories[d]) :
              app.histories[d][k].role = "model" =>
                  onePerAgent(app.histories[d][k].processingSteps)

C25_Witness ==
    \E n \in 1..MaxSubmissions :
        /\ inFlight(n)
        /\ runs[n].pc = "done"
        /\ Len(runs[n].steps) = 10
        /\ Len(app.submissions[n].localSteps) = 5
        /\ app.submissions[n].localSteps[1] = [agent |-> MASTER, status |-> "success"]
        /\ app.submissions[n].localSteps[5] = [agent |-> VALIDATION, status |-> "warning"]

(***************************************************************************)
(* C26: the metadata a run returns is consistent, whatever the calls       *)
(* settled with: riskLevel is the level of riskScore; the three SLA fields *)
(* are the SLA estimate for the returned intent, the returned level and    *)
(* the domain; notifiedTeams is the routing for the returned intent, the   *)
(* returned level and the domain id.                                       *)
(***************************************************************************)
metadataConsistent(md) ==
    /\ levelMatches(md.riskScore, md.riskLevel)
    /\ LET estimate == checkSLAStatus(md.intent, md.riskLevel, DOMAINS[md.domain])
       IN  /\ md.slaTargetHours = estimate.timeToResolve
           /\ md.slaBreachPredicted = estimate.breachPredicted
           /\ md.slaReason = estimate.reason
    /\ md.notifiedTeams = determineNotifiedTeams(md.intent, md.riskLevel, md.domain)

C26_MetadataConsistent ==
    \A i \in DOMAIN runs :
        runs[i].pc = "done" => metadataConsistent(runs[i].result.metadata)

C26_Witness ==
    \E i \in DOMAIN runs :
        /\ runs[i].pc = "done"
        /\ callFailed(runs[i].intentRes)
        /\ runs[i].result.metadata.intent = QUERY
        /\ runs[i].result.metadata.riskLevel = CRITICAL
        /\ teamIn("Wealth Advisory", runs[i].result.metadata.notifiedTeams)

(***************************************************************************)
(* C27: the progress events name the agents in the order Master/Intent,    *)
(* Risk Score, SLA Breach, System, Validation; each agent has at most two  *)
(* events, the pending one first; the System pending event is delivered    *)
(* once the teams are computed and before the generation call is issued,   *)
(* the System exit event after that call has settled.                      *)
(***************************************************************************)
agentIndex(a) ==
    CHOOSE k \in 1..Len(AgentOrder) : AgentOrder[k] = a

eventsOf(r, a) ==
    SelectSeq(r.steps, LAMBDA s : s.agent = a)

\* positions in the trace
tracePositions(r, event, of, S) ==
    {k \in 1..Len(r.trace) :
        r.trace[k].event = event /\ r.trace[k].of = of /\ r.trace[k].status \in S}

allBefore(P, Q) ==
    \A p \in P, q \in Q : p < q

eventOrder(r) ==
    /\ \A p, q \in 1..Len(r.steps) :
          p < q => agentIndex(r.steps[p].agent) <= agentIndex(r.steps[q].agent)
    /\ \A a \in AgentType :
          /\ Len(eventsOf(r, a)) <= 2
          /\ Len(eventsOf(r, a)) >= 1 => eventsOf(r, a)[1].status = "pending"
          /\ Len(eventsOf(r, a)) = 2 => eventsOf(r, a)[2].status # "pending"
    /\ LET systemPending == tracePositions(r, "step", SYSTEM, {"pending"})
           systemExit == tracePositions(r, "step", SYSTEM, StepStatus \ {"pending"})
           issued == tracePositions(r, "call", "generation", {"issued"})
           resolved == tracePositions(r, "settled", "generation", {"settled"})
       IN  /\ allBefore(systemPending, issued)
           /\ allBefore(resolved, systemExit)
           /\ issued # {} => systemPending # {}
           /\ systemExit # {} => resolved # {}

C27_EventOrder ==
    /\ [](\A i \in DOMAIN runs : eventOrder(runs[i]))
    /\ [][\A i \in DOMAIN runs :
            (~hasStep(runs[i], SYSTEM, {"pending"}) /\ hasStep(runs'[i], SYSTEM, {"pending"}))
            => runs[i].notifiedTeams =
                 determineNotifiedTeams(runs[i].intent, runs[i].level, runs[i].domainId)]_vars

C27_Witness ==
    \E i \in DOMAIN runs :
        /\ runs[i].pc = "done"
        /\ Len(runs[i].steps) = 10
        /\ tracePositions(runs[i], "settled", "generation", {"settled"}) # {}
        /\ callFailed(runs[i].responseRes)

(***************************************************************************)
(* C28: the status of an exit event follows from the output of its stage:  *)
(* Risk Score reports warning exactly for HIGH or CRITICAL, SLA Breach     *)
(* exactly when a breach is predicted, Validation exactly when the         *)
(* validation did not pass, and success otherwise; System always reports   *)
(* success; no event has status error.                                     *)
(***************************************************************************)
exitStatus(r, a) ==
    eventsOf(r, a)[2].status

warningIff(r, a, condition) ==
    Len(eventsOf(r, a)) = 2 => exitStatus(r, a) = IF condition THEN "warning" ELSE "success"

C28_ExitStatuses ==
    \A i \in DOMAIN runs :
        LET r == runs[i]
        IN  /\ warningIff(r, RISK, r.level \in {HIGH, CRITICAL})
            /\ warningIff(r, SLA, r.slaStatus.breachPredicted)
            /\ warningIff(r, VALIDATION, ~r.validationPassed)
            /\ warningIff(r, SYSTEM, FALSE)
            /\ \A k \in 1..Len(r.steps) : r.steps[k].status # "error"

C28_Witness ==
    \E i \in DOMAIN runs :
        /\ runs[i].pc = "done"
        /\ exitStatus(runs[i], RISK) = "warning"
        /\ runs[i].level = HIGH
        /\ exitStatus(runs[i], SLA) = "warning"
        /\ exitStatus(runs[i], VALIDATION) = "warning"
        /\ exitStatus(runs[i], SYSTEM) = "success"
        /\ callFailed(runs[i].responseRes)

(***************************************************************************)
(* C29: the domain rules of the routing.  For zepto, Logistics Ops and     *)
(* Hub Manager are notified exactly when the intent is COMPLAINT or the    *)
(* level is HIGH; for bny, Wealth Advisory is notified exactly when the    *)
(* intent is QUERY and the level is not LOW; for any other domain id none  *)
(* of the three is notified.                                               *)
(***************************************************************************)
C29_DomainRouting ==
    teamsApplied =>
        /\ \A t \in {"Logistics Ops", "Hub Manager"} :
              notified(t) <=> /\ applied.domainId = "zepto"
                              /\ (applied.intent = COMPLAINT \/ applied.risk = HIGH)
        /\ notified("Wealth Advisory") <=> /\ applied.domainId = "bny"
                                           /\ applied.intent = QUERY
                                           /\ applied.risk # LOW

C29_Witness ==
    /\ teamsApplied
    /\ applied.domainId = "zepto"
    /\ applied.risk = CRITICAL
    /\ applied.intent = QUERY
    /\ ~notified("Logistics Ops")
    /\ ~notified("Hub Manager")

(***************************************************************************)
(* C30: with the registered configurations, no breach is predicted for bny *)
(* (urgent 4 h, standard 24 h) whatever the intent and the level; for      *)
(* zepto (urgent 0.25 h, standard 1 h) a breach is predicted exactly when  *)
(* the request is urgent; a non-complaint intent with level LOW or MEDIUM  *)
(* gets the standard threshold and the reason "Standard workflow applies". *)
(***************************************************************************)
C30_RegisteredSLA ==
    slaApplied =>
        /\ applied.domain = DOMAINS["bny"] => ~applied.out.breachPredicted
        /\ applied.domain = DOMAINS["zepto"] => (applied.out.breachPredicted <=> urgentCase)
        /\ (applied.intent # COMPLAINT /\ applied.risk \in {LOW, MEDIUM}) =>
              /\ applied.out.timeToResolve = applied.domain.slaThresholds.standard
              /\ applied.out.reason = "Standard workflow applies"

C30_Witness ==
    /\ slaApplied
    /\ applied.domain = DOMAINS["zepto"]
    /\ applied.risk = HIGH
    /\ applied.intent = QUERY
    /\ applied.out.timeToResolve = HourScale \div 4
    /\ applied.out.breachPredicted

(***************************************************************************)
(* C31: no timeout and no cancellation.  A run suspended on an external    *)
(* call has not returned and holds no result; the last thing it did was to *)
(* issue the call, right after the pending event of the stage; and its     *)
(* record changes only by the settlement of that call, so that a call that *)
(* never settles leaves the run where it is for ever.                      *)
(***************************************************************************)
replyTo(r, site) ==
    CASE site = "classification" -> r.intentRes
      [] site = "generation" -> r.responseRes
      [] site = "validation" -> r.validationRes

agentOf(site) ==
    CASE site = "classification" -> MASTER
      [] site = "generation" -> SYSTEM
      [] site = "validation" -> VALIDATION

suspended(r) ==
    r.awaiting # "none"

C31_NoTimeoutNoCancellation ==
    /\ [](\A i \in DOMAIN runs :
            suspended(runs[i]) =>
                /\ runs[i].pc \notin {"returning", "done", "raised"}
                /\ runs[i].result = IdleRun.result
                /\ ~callSettled(replyTo(runs[i], runs[i].awaiting))
                /\ runs[i].trace[Len(runs[i].trace)] =
                      [event |-> "call", of |-> runs[i].awaiting, status |-> "issued"]
                /\ runs[i].trace[Len(runs[i].trace) - 1] =
                      [event |-> "step", of |-> agentOf(runs[i].awaiting),
                       status |-> "pending"])
    /\ [][\A i \in DOMAIN runs :
            (suspended(runs[i]) /\ runs'[i] # runs[i]) =>
                callSettled(replyTo(runs'[i], runs[i].awaiting))]_vars

C31_Witness ==
    \E i \in DOMAIN runs :
        /\ runs[i].awaiting = "generation"
        /\ Len(runs[i].steps) = 7
        /\ runs[i].steps[7] = [agent |-> SYSTEM, status |-> "pending"]

(***************************************************************************)
(* C32: validation fails open in every degraded case.  The returned        *)
(* validationPassed is false only if the validation call was fulfilled     *)
(* with a parseable object whose isValid is false; a rejected call, an     *)
(* unparseable reply and a reply without isValid give true; a parsed reply *)
(* without a reason gives the reason "Validation completed.".              *)
(***************************************************************************)
verdictGiven(reply) ==
    reply.status = "fulfilled" /\ reply.body = "object"

C32_FailOpenEverywhere ==
    \A i \in DOMAIN runs :
        runs[i].pc = "done" =>
            LET md == runs[i].result.metadata
                reply == runs[i].validationRes
            IN  /\ md.validationPassed \in BOOLEAN
                /\ md.validationPassed = FALSE <=>
                      (verdictGiven(reply) /\ reply.isValid = "false")
                /\ (verdictGiven(reply) /\ reply.reason = "") =>
                      md.validationReason = "Validation completed."

C32_Witness ==
    \E i \in DOMAIN runs :
        /\ runs[i].pc = "done"
        /\ verdictGiven(runs[i].validationRes)
        /\ runs[i].validationRes.isValid = "absent"
        /\ runs[i].result.metadata.validationPassed
        /\ runs[i].result.metadata.validationReason = "Validation completed."

(***************************************************************************)
(* C33: the returned intent is UNKNOWN only if the classification call was *)
(* fulfilled and its reply carried the enum value UNKNOWN; the placeholder *)
(* of line 207 never survives: a failed call, an unparseable reply and an  *)
(* empty or missing intent field give QUERY.                               *)
(***************************************************************************)
intentCarried(reply) ==
    reply.status = "fulfilled" /\ reply.body = "object" /\ reply.field = "string"

C33_UnknownOnlyFromReply ==
    \A i \in DOMAIN runs :
        runs[i].pc = "done" =>
            LET md == runs[i].result.metadata
                reply == runs[i].intentRes
            IN  /\ md.intent = UNKNOWN => (intentCarried(reply) /\ reply.intent = UNKNOWN)
                /\ (~intentCarried(reply) \/ reply.intent = "") => md.intent = QUERY

C33_Witness ==
    \E i \in DOMAIN runs :
        /\ runs[i].pc = "done"
        /\ runs[i].intentRes.status = "fulfilled"
        /\ runs[i].intentRes.body = "object"
        /\ runs[i].intentRes.field = "absent"
        /\ runs[i].result.metadata.intent = QUERY

(***************************************************************************)
(* C34: an exception of the callback while the classification success      *)
(* event is delivered is caught by the classification stage's handler:     *)
(* the run goes on, with the intent overwritten by QUERY although the      *)
(* classification had succeeded; an exception of the callback at any other *)
(* event is not caught: the run raises there and then.                     *)
(***************************************************************************)
\* the callback has thrown: the event it throws at has been emitted
callbackThrew(r) ==
    r.throwAt > 0 /\ Len(r.steps) >= r.throwAt

thrownDuring(r) ==
    r.steps[r.throwAt]

C34_CallbackException ==
    \A i \in DOMAIN runs :
        LET r == runs[i]
        IN  /\ (callbackThrew(r) /\ thrownDuring(r) = [agent |-> MASTER, status |-> "success"]) =>
                  /\ r.pc # "raised"
                  /\ r.intent = QUERY
                  /\ r.pc = "done" => r.result.metadata.intent = QUERY
            /\ (callbackThrew(r) /\ thrownDuring(r) # [agent |-> MASTER, status |-> "success"]) =>
                  /\ r.pc = "raised"
                  /\ Len(r.steps) = r.throwAt
                  /\ r.result = IdleRun.result
            /\ r.pc = "raised" => callbackThrew(r)

C34_Witness ==
    \E i \in DOMAIN runs :
        /\ runs[i].pc = "done"
        /\ runs[i].throwAt = 2
        /\ runs[i].intentRes.status = "fulfilled"
        /\ runs[i].intentRes.intent = COMPLAINT
        /\ runs[i].result.metadata.intent = QUERY
        /\ Len(runs[i].steps) = 10

(***************************************************************************)
(* C35: the processing steps stored with a bot message hold no step whose  *)
(* status is pending, whatever the outcomes of the external calls: every   *)
(* agent's entry has gone from pending to a completed status before the    *)
(* bot message is stored.                                                  *)
(***************************************************************************)
storedMessages ==
    { msg \in UNION { { app.histories[d][k] : k \in 1..Len(app.histories[d]) } :
                         d \in DOMAIN app.histories } : msg.role = "model" }

C35_NoPendingStored ==
    \A msg \in storedMessages :
        \A k \in 1..Len(msg.processingSteps) : msg.processingSteps[k].status # "pending"

\* what holds instead: only the Master/Intent entry can be stored pending
C35_OnlyMasterPending ==
    \A msg \in storedMessages :
        \A k \in 1..Len(msg.processingSteps) :
            msg.processingSteps[k].status = "pending" => msg.processingSteps[k].agent = MASTER

(***************************************************************************)
(* C36: the chat interface has at most one pipeline run in flight: under   *)
(* any sequence of form submits, starter clicks and suggested-action       *)
(* clicks, the ChatInterface has at most one run of its own in flight and  *)
(* is locked exactly while it has one, and a run starts, and a user        *)
(* message is appended, only when isProcessing is false and the text to    *)
(* send is not empty or blank.                                             *)
(***************************************************************************)
runsInFlight ==
    { n \in 1..MaxSubmissions : inFlight(n) }

userMessageAppended(d) ==
    /\ Len(app'.histories[d]) = Len(app.histories[d]) + 1
    /\ app'.histories[d][Len(app'.histories[d])].role = "user"

\* handleSubmit starts a run and appends a user message only past its guard
guardedSubmits ==
    /\ \A n \in 1..MaxSubmissions :
          (~inFlight(n) /\ inFlight(n)') =>
              /\ ~app.isProcessing
              /\ ~trimIsEmpty(app'.submissions[n].userMsg.content)
              /\ userMessageAppended(app'.submissions[n].domain)
    /\ \A d \in DOMAIN app.histories :
          userMessageAppended(d) =>
              /\ ~app.isProcessing
              /\ ~trimIsEmpty(app'.histories[d][Len(app'.histories[d])].content)
              /\ \E n \in 1..MaxSubmissions : ~inFlight(n) /\ inFlight(n)'

\* the runs of the mounted ChatInterface (a tab switch, which is none of
\* the events above, unmounts it and leaves its run to go on by itself)
ownRunsInFlight ==
    { n \in runsInFlight : app.submissions[n].mounted }

C36_OneRunPerInstance ==
    /\ [](/\ Cardinality(ownRunsInFlight) <= 1
          /\ app.isProcessing <=> ownRunsInFlight # {}
          /\ ownRunsInFlight = runsInFlight => Cardinality(runsInFlight) <= 1)
    /\ [][guardedSubmits]_vars

\* a second run is in flight, started by a click on a suggested action of the
\* first bot message, which stays locked out while that run lasts
C36_Witness ==
    /\ inFlight(2)
    /\ app.submissions[2].mounted
    /\ app.submissions[1].state = "resolved"
    /\ app.isProcessing
    /\ runs[2].pc = "awaitGeneration"
    /\ Len(app.histories[app.currentDomain]) = 3
    /\ app.histories[app.currentDomain][2].suggestedActions = <<SampleAction>>
    /\ app.histories[app.currentDomain][3].content = SampleAction.text

(***************************************************************************)
(* C37: in every domain's history each model message is immediately        *)
(* preceded by the user message whose run produced it, under any           *)
(* interleaving of submissions, New Chat and domain switches with runs in  *)
(* flight; a reply of a run started before New Chat cleared the history is *)
(* not appended to the cleared history.                                    *)
(***************************************************************************)
\* the message at position k of domain d is the reply to the one before it
\* (the bot message of a submission has the id that follows its user message's)
repliesToPrevious(d, k) ==
    /\ k > 1
    /\ app.histories[d][k - 1].role = "user"
    /\ app.histories[d][k - 1].id = app.histories[d][k].id - 1

C37_ReplyFollowsItsMessage ==
    \A d \in DOMAIN app.histories :
        \A k \in 1..Len(app.histories[d]) :
            app.histories[d][k].role = "model" => repliesToPrevious(d, k)

\* what holds instead: a reply without its message stands first in a history
C37_ReplyFollowsOrStandsFirst ==
    \A d \in DOMAIN app.histories :
        \A k \in 1..Len(app.histories[d]) :
            app.histories[d][k].role = "model" => (k = 1 \/ repliesToPrevious(d, k))

(***************************************************************************)
(* C38: every submission whose run resolves, by returning or by raising,   *)
(* eventually ends and sets isProcessing of its ChatInterface back to      *)
(* false: no submission stays resolved for ever, a resolved submission     *)
(* changes only by ending, and the input of the mounted ChatInterface does *)
(* not stay locked by a resolved run; isProcessing is true only while a    *)
(* run of the mounted ChatInterface is in flight; when the run raises, no  *)
(* bot message is appended and the user message stays in the history.      *)
(***************************************************************************)
resolved(n) ==
    inFlight(n) /\ runs[n].pc \in {"done", "raised"}

C38_InputUnlocked ==
    /\ \A n \in 1..MaxSubmissions :
          /\ []<>~resolved(n)
          /\ []<>~(resolved(n) /\ app.submissions[n].mounted /\ app.isProcessing)
    /\ [](app.isProcessing =>
             \E n \in 1..MaxSubmissions : inFlight(n) /\ app.submissions[n].mounted)
    /\ [][ \A n \in 1..MaxSubmissions :
              /\ (resolved(n) /\ ~resolved(n)') => ~inFlight(n)'
              /\ (inFlight(n) /\ ~inFlight(n)') =>
                    /\ resolved(n)
                    /\ app.submissions[n].mounted => ~app'.isProcessing
                    /\ runs[n].pc = "raised" => app'.histories = app.histories ]_vars

\* the run of the first submission has raised and handleSubmit has caught it:
\* the input is unlocked and the history holds the user message alone
C38_Witness ==
    /\ app.submissions[1].state = "rejected"
    /\ ~app.isProcessing
    /\ app.activeTab = "chat"
    /\ app.submitted = 1
    /\ Len(app.histories["bny"]) = 1
    /\ app.histories["bny"][1].role = "user"
    /\ app.histories["bny"][1].id = 1

(***************************************************************************)
(* C39: the history operations respect their frame.  New Chat empties only *)
(* the current domain's history, changing the domain changes no history,   *)
(* and appending a message adds it at the end of one history and leaves    *)
(* every other history unchanged: a user message goes to the current       *)
(* domain's history, a bot message to the history of the domain that was   *)
(* current when its submission was made.                                   *)
(***************************************************************************)
changed ==
    { d \in DOMAIN app.histories : app'.histories[d] # app.histories[d] }

emptied(d) ==
    app'.histories[d] = <<>> /\ app.histories[d] # <<>>

appended(d) ==
    /\ Len(app'.histories[d]) = Len(app.histories[d]) + 1
    /\ SubSeq(app'.histories[d], 1, Len(app.histories[d])) = app.histories[d]

lastOf(d) ==
    app'.histories[d][Len(app'.histories[d])]

\* the domain that was current when the message appended to d was submitted
submittedIn(d) ==
    \E n \in 1..MaxSubmissions :
        /\ lastOf(d).id \in {2 * n - 1, 2 * n}
        /\ d = IF lastOf(d).role = "user" THEN app'.submissions[n].domain
                                          ELSE app.submissions[n].domain

framesKept ==
    /\ Cardinality(changed) <= 1
    /\ \A d \in changed : emptied(d) \/ appended(d)
    /\ \A d \in changed : emptied(d) => d = app.currentDomain
    /\ app'.currentDomain # app.currentDomain => changed = {}

C39_HistoryFrames ==
    [][ /\ framesKept
       /\ \A d \in changed : appended(d) =>
             /\ submittedIn(d)
             /\ lastOf(d).role = "user" => d = app.currentDomain ]_vars

\* the claim as stated: every message is appended to the current domain's history
C39_AppendToCurrentDomain ==
    [][ /\ framesKept
       /\ \A d \in changed : appended(d) => d = app.currentDomain ]_vars

\* a reply has been appended to the bny history while zepto is the current
\* domain, and New Chat has emptied the zepto history since
C39_Witness ==
    /\ app.currentDomain = "zepto"
    /\ app.histories["zepto"] = <<>>
    /\ app.submissions[1].state = "resolved"
    /\ app.submissions[2].state = "rejected"
    /\ Len(app.histories["bny"]) = 2
    /\ app.histories["bny"][2].role = "model"

=============================================================================
